---- MODULE Spec2Model ----
(***************************************************************************)
(* Payment service: the ProcessPayment / RefundPayment / GetPaymentStatus  *)
(* handlers of payment_servicer.py, with the reservation gateway client    *)
(* (reservation_client.py), the tenant-scoped session provider (db.py),    *)
(* the payments table (models.py) and the event publisher (publisher.py).  *)
(*                                                                         *)
(* Every RPC runs on a worker of the gRPC thread pool; a handler is cut    *)
(* into steps at its blocking calls (gateway round-trips, the database     *)
(* flush/commit, the publish), so that the steps of different workers      *)
(* interleave.  Amounts are fixed-point integers in units of 0.01.         *)
(* Identifier strings are records [f, u]: f is the textual form and u the  *)
(* UUID value the text denotes ("canon" is what str(UUID) prints, "upper"  *)
(* another spelling of the same UUID that UUID() accepts, "bad" a non-empty*)
(* text that UUID() rejects, "empty" the empty string).  A UUID value is a *)
(* pair <<what it names, number>>.                                         *)
(***************************************************************************)
EXTENDS Integers, FiniteSets, Sequences, TLC

\* ---------------------------------------------------------------- bounds
NumWorkers == 2
MaxCalls == 2

Workers == 1..NumWorkers

\* ------------------------------------------------------- identifier text
NilUUID == <<"", 0>>

EmptyStr == [f |-> "empty", u |-> NilUUID]

BadStr == [f |-> "bad", u |-> NilUUID]

Canon(u) == [f |-> "canon", u |-> u]

Upper(u) == [f |-> "upper", u |-> u]

\* `not s` of a Python string
IsEmpty(s) == s.f = "empty"

\* UUID(s) raises ValueError on text that is not a UUID
UUIDRaises(s) == s.f \in {"empty", "bad"}

\* UUID(s): the value; str(UUID(s)) is Canon of it
UUIDOf(s) == s.u

\* str(uuid)
StrOfUUID(u) == Canon(u)

DEFAULT_TENANT_ID == Canon(<<"tenant", 0>>)

TenantA == <<"tenant", 1>>

TenantB == <<"tenant", 2>>

\* the tenant that is not u
OtherTenant(u) == IF u = TenantA THEN TenantB ELSE TenantA

UserA == <<"user", 1>>

UserB == <<"user", 2>>

ReservationA == <<"reservation", 1>>

\* (mutant) uuid4() returns the identifier it returned first
uuid4_Repeats(n) == <<"uuid4", 1>>

\* uuid4() when n identifiers were generated before
uuid4(n) == <<"uuid4", n + 1>>

\* an identifier that uuid4() never returned
Unissued == <<"uuid4", 0>>

\* ----------------------------------------------------------- error codes
ERROR_CODES == {"INVALID_REQUEST", "RESERVATION_NOT_FOUND", "AMOUNT_MISMATCH",
                "RESERVATION_SERVICE_UNAVAILABLE", "PAYMENT_NOT_FOUND",
                "PAYMENT_ALREADY_REFUNDED", "REFUND_NOT_ALLOWED", "INTERNAL_ERROR"}

PaymentStatus == {"PENDING", "COMPLETED", "FAILED", "REFUNDED"}

\* ------------------------------------------------------- payments table
NoRow == [transaction_id |-> NilUUID, reservation_id |-> NilUUID, user_id |-> NilUUID,
          tenant_id |-> NilUUID, amount |-> 0, currency |-> "", status |-> "NONE",
          error_message |-> "", refund_id |-> NilUUID, refund_amount |-> 0,
          refund_reason |-> "", refunded_at |-> 0, created_at |-> 0]

PaymentModel(txn, reservation, user, tenant, amount, currency) ==
    [NoRow EXCEPT !.transaction_id = txn, !.reservation_id = reservation,
                  !.user_id = user, !.tenant_id = tenant, !.amount = amount,
                  !.currency = currency, !.status = "PENDING"]

\* ---------------------------------------------------- reservation gateway
Tolerance == 1

Abs(x) == IF x < 0 THEN -x ELSE x

\* What comes back from one HTTP round-trip to the reservation service.
\* shape: the transport result or the form of the JSON body.
TransportFailures == {"timeout", "http_status", "request_error"}

GetShapes == TransportFailures \cup
             {"non_json", "errors", "errors_empty", "data_null", "no_data",
              "null_reservation", "missing_field", "bad_cost", "reservation"}

ConfirmShapes == TransportFailures \cup
                 {"non_json", "errors", "errors_empty", "data_null", "no_data",
                  "null_result", "result"}

RemoteStatuses == {"PENDING", "CONFIRMED", "CANCELLED"}

\* cost of the reservation as the remote reports it, relative to the amount
\* of the request: equal, off by exactly the tolerance, off by more
CostDeltas == {-2, -1, 0, 1, 2}

\* whose reservation the remote reports, relative to the request: that of
\* the requesting user and tenant, of another user of the tenant, or of
\* another tenant
Owners == {"same", "other_user", "other_tenant"}

\* the answers to the fetch-by-id query: a reservation with a cost (relative
\* to the requested amount), a status and an owner, or one of the other shapes
GetAnswers ==
    {[shape |-> "reservation", delta |-> d, status |-> st, owner |-> "same"] :
        d \in CostDeltas, st \in RemoteStatuses}
    \cup {[shape |-> "reservation", delta |-> 0, status |-> "PENDING", owner |-> o] :
            o \in Owners}
    \cup {[shape |-> sh, delta |-> 0, status |-> "", owner |-> ""] :
            sh \in GetShapes \ {"reservation"}}

\* the answers to the confirm mutation: a result with a status (or without
\* one), or one of the other shapes.  effect: whether the mutation has
\* confirmed the reservation remotely; a result with status CONFIRMED says so,
\* a timeout or a body that cannot be read leaves it open
ConfirmAnswers ==
    {[shape |-> "result", status |-> st, effect |-> (st = "CONFIRMED")] :
        st \in RemoteStatuses \cup {""}}
    \cup {[shape |-> sh, status |-> "", effect |-> FALSE] :
            sh \in ConfirmShapes \ {"result"}}
    \cup {[shape |-> sh, status |-> "", effect |-> TRUE] : sh \in {"timeout", "non_json"}}

\* The exception classes of reservation_client.py, and "exception" for any
\* exception that is not a ReservationClientError
ClientErrorKinds == {"not_found", "validation_failed", "unavailable", "client_error"}

get_reservation(shape, cost, status) ==
    CASE shape \in TransportFailures -> [kind |-> "unavailable", total_cost |-> 0, status |-> ""]
      [] shape = "non_json" -> [kind |-> "exception", total_cost |-> 0, status |-> ""]
      [] shape = "errors" -> [kind |-> "client_error", total_cost |-> 0, status |-> ""]
      [] shape = "errors_empty" -> [kind |-> "exception", total_cost |-> 0, status |-> ""]
      [] shape = "data_null" -> [kind |-> "exception", total_cost |-> 0, status |-> ""]
      [] shape = "no_data" -> [kind |-> "not_found", total_cost |-> 0, status |-> ""]
      [] shape = "null_reservation" -> [kind |-> "not_found", total_cost |-> 0, status |-> ""]
      [] shape = "missing_field" -> [kind |-> "exception", total_cost |-> 0, status |-> ""]
      [] shape = "bad_cost" -> [kind |-> "exception", total_cost |-> 0, status |-> ""]
      [] OTHER -> [kind |-> "ok", total_cost |-> cost, status |-> status]

\* reservation_client.py 28-36 and 158-164: the ReservationInfo that
\* get_reservation builds and validate_payment_amount checks and returns
ReservationInfo(tenant_id, user_id, total_cost, status) ==
    [tenant_id |-> tenant_id, user_id |-> user_id, total_cost |-> total_cost,
     status |-> status]

NoInfo == ReservationInfo(EmptyStr, EmptyStr, 0, "")

\* the reservation in the answer g to a request of user_id in tenant_id for
\* amount: tenantId, userId, totalCost and status
Reported(g, tenant_id, user_id, amount) ==
    IF g.shape # "reservation" THEN NoInfo
    ELSE ReservationInfo(IF g.owner = "other_tenant"
                           THEN Canon(OtherTenant(UUIDOf(tenant_id)))
                           ELSE tenant_id,
                         IF g.owner = "other_user" THEN Canon(UserB) ELSE user_id,
                         amount + g.delta, g.status)

\* (mutant) the status of the reservation is checked before its cost
ValidationErrorText_StatusFirst(total_cost, status, amount) ==
    IF status \notin {"PENDING", "CONFIRMED"}
      THEN "Cannot process payment for reservation with status"
    ELSE IF Abs(total_cost - amount) > Tolerance
      THEN "Payment amount does not match reservation cost"
    ELSE ""

\* reservation_client.py 191-203: str(e) of the ReservationValidationError
\* that validate_payment_amount raises, "" when it raises none
ValidationErrorText(total_cost, status, amount) ==
    IF Abs(total_cost - amount) > Tolerance
      THEN "Payment amount does not match reservation cost"
    ELSE IF status \notin {"PENDING", "CONFIRMED"}
      THEN "Cannot process payment for reservation with status"
    ELSE ""

\* (mutant) only a cost above the amount is a mismatch
validate_payment_amount_OneSided(shape, cost, status, amount) ==
    LET reservation == get_reservation(shape, cost, status) IN
    IF reservation.kind # "ok" THEN reservation.kind
    ELSE IF reservation.total_cost - amount > Tolerance THEN "validation_failed"
    ELSE IF reservation.status \notin {"PENDING", "CONFIRMED"} THEN "validation_failed"
    ELSE "ok"

validate_payment_amount(shape, cost, status, amount) ==
    LET reservation == get_reservation(shape, cost, status) IN
    IF reservation.kind # "ok" THEN reservation.kind
    ELSE IF Abs(reservation.total_cost - amount) > Tolerance THEN "validation_failed"
    ELSE IF reservation.status \notin {"PENDING", "CONFIRMED"} THEN "validation_failed"
    ELSE "ok"

confirm_reservation(shape, status) ==
    CASE shape \in TransportFailures -> "unavailable"
      [] shape = "non_json" -> "exception"
      [] shape = "errors" -> "client_error"
      [] shape = "errors_empty" -> "exception"
      [] shape = "data_null" -> "exception"
      [] shape = "no_data" -> "client_error"
      [] shape = "null_result" -> "client_error"
      [] OTHER -> IF status = "CONFIRMED" THEN "ok" ELSE "client_error"

\* (mutant) the error raised by confirm_reservation has no text and the
\* message stored is empty
ConfirmErrorText_Empty(kind) == ""

\* str(e) of the error raised by confirm_reservation
ConfirmErrorText(kind) ==
    IF kind = "unavailable" THEN "Failed to confirm reservation"
    ELSE "Failed to confirm / unexpected confirmation result"

\* ------------------------------------------------------------- messages
NoReq == [rpc |-> "none", reservation_id |-> EmptyStr, user_id |-> EmptyStr,
          tenant_id |-> EmptyStr, transaction_id |-> EmptyStr, amount |-> 0,
          currency |-> "", reason |-> ""]

\* the empty created_at string of a response
NoTime == <<"", 0>>

\* datetime.isoformat() of the timestamp t
isoformat(t) == <<"iso", t>>

\* kind "raised": an exception left the handler instead of a response message
NoResp == [kind |-> "none", success |-> FALSE, transaction_id |-> EmptyStr,
           refund_id |-> EmptyStr, message |-> "", error_code |-> "",
           grpc_code |-> "", status |-> "", amount |-> 0, currency |-> "",
           created_at |-> NoTime]

PaymentResponse(success, transaction_id, message, error_code) ==
    [NoResp EXCEPT !.kind = "PaymentResponse", !.success = success,
                   !.transaction_id = transaction_id, !.message = message,
                   !.error_code = error_code]

RefundResponse(success, refund_id, message, error_code) ==
    [NoResp EXCEPT !.kind = "RefundResponse", !.success = success,
                   !.refund_id = refund_id, !.message = message,
                   !.error_code = error_code]

PaymentStatusResponse(grpc_code, status, transaction_id, amount, currency, created_at) ==
    [NoResp EXCEPT !.kind = "PaymentStatusResponse", !.grpc_code = grpc_code,
                   !.status = status, !.transaction_id = transaction_id,
                   !.amount = amount, !.currency = currency,
                   !.created_at = created_at]

Raised == [NoResp EXCEPT !.kind = "raised"]

\* inputs of ProcessPayment: a well-formed request of each tenant, and the
\* same request with fields empty, malformed or non-positive
ValidProcessA ==
    [NoReq EXCEPT !.rpc = "ProcessPayment", !.reservation_id = Canon(ReservationA),
                  !.user_id = Canon(UserA), !.tenant_id = Canon(TenantA),
                  !.amount = 10, !.currency = ""]

ValidProcessB == [ValidProcessA EXCEPT !.tenant_id = Canon(TenantB), !.currency = "USD"]

ProcessRequests ==
    {ValidProcessA, ValidProcessB}
    \cup {[ValidProcessA EXCEPT !.reservation_id = s] : s \in {EmptyStr, BadStr}}
    \cup {[ValidProcessA EXCEPT !.user_id = s] : s \in {EmptyStr, BadStr}}
    \cup {[ValidProcessA EXCEPT !.tenant_id = s] : s \in {EmptyStr, BadStr}}
    \cup {[ValidProcessA EXCEPT !.amount = a] : a \in {0, -10}}
    \cup {[ValidProcessA EXCEPT !.user_id = EmptyStr, !.amount = 0],
          [ValidProcessA EXCEPT !.reservation_id = BadStr, !.tenant_id = EmptyStr]}

\* ---------------------------------------------------------------- state
\* payments .. rls: the servicer and its datastore.  client: the last direct
\* call of the reservation client and what it returned.  health: the process
\* environment seen by the HTTP probes of main.py and their last answer.
VARIABLES payments, pc, req, loc, resp, cnt, events, calls, ids, rls, client, health

vars == <<payments, pc, req, loc, resp, cnt, events, calls, ids, rls, client, health>>

\* per-invocation locals of a handler: the generated transaction id, the
\* ORM object of the session, the outcome of the gateway calls, the session,
\* the tenant it is bound to and (ops) what was executed on it, in order;
\* reservation_info: the reservation that the gateway reported to the validate
\* call (reservation_client.py 189), which the call returns when it passes;
\* sent: the transactionId variable of the confirm mutation that was posted;
\* remote: whether that mutation has confirmed the reservation remotely
NoLoc == [transaction_id |-> NilUUID, payment |-> NoRow, currency |-> "",
          validated |-> "", confirmed |-> "", db |-> "", session |-> "none",
          bound |-> NilUUID, refund_id |-> NilUUID, published |-> "", ops |-> <<>>,
          reservation_info |-> NoInfo, sent |-> EmptyStr, remote |-> FALSE]

\* what one invocation has done so far
NoCnt == [validate_calls |-> 0, confirm_calls |-> 0, sessions |-> 0,
          statements |-> 0, publishes |-> 0]

\* datetime.utcnow() / datetime.now(timezone.utc) when n RPCs have arrived:
\* the clock ticks with every RPC; the earlier payment was created at utcnow(0)
utcnow(n) == n + 1

\* The servicer starts on a payments table that is empty, or that holds the
\* payment an earlier successful ProcessPayment(ValidProcessA) left there.
\* rls: whether the datastore filters rows by app.tenant_id (PostgreSQL with
\* the policies installed) or not (db.py 177-179: the SET is a logged no-op).
EarlierPayment ==
    [PaymentModel(uuid4(0), ReservationA, UserA, TenantA, 10, "EUR")
        EXCEPT !.status = "COMPLETED", !.created_at = utcnow(0)]

\* no call of the reservation client was made outside the handlers
NoCall == [op |-> "none", shape |-> "", total_cost |-> 0, status |-> "", amount |-> 0,
           result |-> ""]

\* DATABASE_URL is set and the database is up; no probe was answered.
\* at: the state of the database when the last probe was answered
NoHealth == [url_set |-> TRUE, database |-> "up", probes |-> 0, probe |-> "none",
             at |-> "", http |-> "", status |-> "", db |-> ""]

Init ==
    /\ \/ /\ payments = <<>>
          /\ ids = 0
       \/ /\ payments = (uuid4(0) :> EarlierPayment)
          /\ ids = 1
    /\ pc = [w \in Workers |-> "idle"]
    /\ req = [w \in Workers |-> NoReq]
    /\ loc = [w \in Workers |-> NoLoc]
    /\ resp = [w \in Workers |-> NoResp]
    /\ cnt = [w \in Workers |-> NoCnt]
    /\ events = {}
    /\ calls = 0
    /\ rls \in BOOLEAN
    /\ client = NoCall
    /\ health = NoHealth

\* A handler that has returned hands its response to the gRPC layer before
\* any worker takes another step: pc = "done" shows the response, the locals
\* and the counters of the invocation that just ended.
Running == \A w \in Workers : pc[w] # "done"

\* The steps of a handler between two accesses to what the workers share (the
\* committed rows, the id generator) touch only its own session, the gateway
\* and the publisher: they commute with every step of the other workers, so
\* a handler takes them before any other worker reads or commits.
Quiet == \A w \in Workers : pc[w] \notin {"done", "pp_insert", "pp_confirm", "pp_publish", "rf_publish"}

\* the handler of worker w returns r (or raises, r = Raised)
Return(w, r) ==
    /\ resp' = [resp EXCEPT ![w] = r]
    /\ pc' = [pc EXCEPT ![w] = "done"]

\* a new RPC is dispatched to the idle worker w; the threads of the pool are
\* interchangeable, so the RPC goes to the first one that is free
Idle(w) ==
    /\ Quiet
    /\ pc[w] = "idle"
    /\ calls < MaxCalls
    /\ \A v \in Workers : v < w => pc[v] # "idle"

Dispatch(w, r) ==
    /\ Idle(w)
    /\ calls' = calls + 1
    /\ req' = [req EXCEPT ![w] = r]

\* db.py 127: tenant_id or DEFAULT_TENANT_ID
effective_tenant_id(tenant_id) ==
    IF IsEmpty(tenant_id) THEN DEFAULT_TENANT_ID ELSE tenant_id

\* db.py 124-128 and 173-179: the session is created and set_tenant_id
\* executes the SET of the effective tenant on it
Bind(l, tenant_id) ==
    [l EXCEPT !.session = "open", !.bound = UUIDOf(effective_tenant_id(tenant_id)),
              !.ops = @ \o <<"SET">>]

\* the body of the with-block executes statements on its session
Execute(l, statements) == [l EXCEPT !.ops = @ \o statements]

\* (mutant) the session is left open after the rollback
RolledBack_Unclosed(l) ==
    [l EXCEPT !.payment = NoRow, !.session = "rolled_back", !.ops = @ \o <<"rollback">>]

\* db.py 131-135 get_db_context_with_tenant: rollback-then-close on a raised
\* failure
RolledBack(l) ==
    [l EXCEPT !.payment = NoRow, !.session = "rolled_back",
              !.ops = @ \o <<"rollback", "close">>]

\* db.py 130 and 134-135: commit-then-close when the body completes
Closed(l) == [l EXCEPT !.session = "committed", !.ops = @ \o <<"commit", "close">>]

\* (mutant) set_tenant_id does not validate the tenant id
set_tenant_id_raises_Never(tenant_id) == FALSE

\* db.py 138-171 set_tenant_id: ValueError on a tenant id that is not a UUID
set_tenant_id_raises(tenant_id) == UUIDRaises(tenant_id)

\* (mutant) a unique index on reservation_id: the INSERT of a second row for a
\* reservation is dropped
Insert_OncePerReservation(table, row) ==
    IF \E t \in DOMAIN table : table[t].reservation_id = row.reservation_id
      THEN table
      ELSE [t \in DOMAIN table \cup {row.transaction_id} |->
               IF t = row.transaction_id THEN row ELSE table[t]]

\* INSERT of a row, visible to other sessions once committed
Insert(table, row) ==
    [t \in DOMAIN table \cup {row.transaction_id} |->
        IF t = row.transaction_id THEN row ELSE table[t]]

\* (mutant) the session factory runs with autocommit: the flush writes the row
\* where the other sessions see it
Flush_Autocommit(table, row) == Insert(table, row)

\* db.py 60-70 (autocommit=False) and payment_servicer.py 190-191: db.flush()
\* sends the INSERT inside the open transaction; the rows that other sessions
\* see stay as they are until the commit
Flush(table, row) == table

\* (mutant) the commit returns without having written the row
CommitInsert_Dropped(table, row, db) == table

\* (mutant) a commit that raised has written the row all the same
CommitInsert_NoRollback(table, row, db) == Insert(table, row)

\* db.commit() of the flushed row: a commit that raises leaves the table as it
\* was (the session provider rolls back)
CommitInsert(table, row, db) ==
    IF db = "commit_raises" THEN table ELSE Insert(table, row)

\* (mutant) the amount check lets zero through
ProcessFieldError_ZeroAllowed(r) ==
    IF IsEmpty(r.reservation_id) THEN "reservation_id is required"
    ELSE IF IsEmpty(r.user_id) THEN "user_id is required"
    ELSE IF IsEmpty(r.tenant_id) THEN "tenant_id is required"
    ELSE IF r.amount < 0 THEN "amount must be positive"
    ELSE ""

\* payment_servicer.py 99-130: the message of the first failing field check,
\* "" when the request passes
ProcessFieldError(r) ==
    IF IsEmpty(r.reservation_id) THEN "reservation_id is required"
    ELSE IF IsEmpty(r.user_id) THEN "user_id is required"
    ELSE IF IsEmpty(r.tenant_id) THEN "tenant_id is required"
    ELSE IF r.amount <= 0 THEN "amount must be positive"
    ELSE ""

\* (mutant) the transaction id is generated before the validate call and
\* returned with its failure
ValidateFailure_WithId(v, text) ==
    IF v \in ClientErrorKinds
      THEN PaymentResponse(FALSE, StrOfUUID(Unissued), "Reservation validation failed",
                           CASE v = "not_found" -> "RESERVATION_NOT_FOUND"
                             [] v = "validation_failed" -> "AMOUNT_MISMATCH"
                             [] v = "unavailable" -> "RESERVATION_SERVICE_UNAVAILABLE"
                             [] OTHER -> "INTERNAL_ERROR")
      ELSE Raised

\* payment_servicer.py 143-174: the except clauses around the validate call;
\* text is str(e) of a ReservationValidationError
ValidateFailure(v, text) ==
    CASE v = "not_found" ->
           PaymentResponse(FALSE, EmptyStr, "Reservation not found", "RESERVATION_NOT_FOUND")
      [] v = "validation_failed" ->
           PaymentResponse(FALSE, EmptyStr, text, "AMOUNT_MISMATCH")
      [] v = "unavailable" ->
           PaymentResponse(FALSE, EmptyStr, "Reservation service is temporarily unavailable",
                           "RESERVATION_SERVICE_UNAVAILABLE")
      [] v = "client_error" ->
           PaymentResponse(FALSE, EmptyStr, "Failed to validate reservation", "INTERNAL_ERROR")
      [] OTHER -> Raised

\* (mutant) a database failure gets a code of its own
ProcessDbFailure_OtherCode ==
    PaymentResponse(FALSE, EmptyStr, "Internal error during payment processing", "DATABASE_ERROR")

\* payment_servicer.py 226-233: the except clause around the with-block
ProcessDbFailure ==
    PaymentResponse(FALSE, EmptyStr, "Internal error during payment processing", "INTERNAL_ERROR")

\* payment_servicer.py 216-221: the response of the confirm-failure path
ConfirmFailure(transaction_id) ==
    PaymentResponse(FALSE, StrOfUUID(transaction_id),
                    "Payment recorded but reservation confirmation failed", "INTERNAL_ERROR")

\* (mutant) the success response leaves the transaction id out
ProcessSuccess_NoId(transaction_id) ==
    PaymentResponse(TRUE, EmptyStr, "Payment processed successfully", "")

\* payment_servicer.py 248-253
ProcessSuccess(transaction_id) ==
    PaymentResponse(TRUE, StrOfUUID(transaction_id), "Payment processed successfully", "")

\* (mutant) an exception of the publish reaches the except clause of the
\* handler
AfterPublish_Propagates(outcome, success, failure) ==
    IF outcome = "raises" THEN failure ELSE success

\* payment_servicer.py 236-246 and 465-473: an exception of the publish is
\* caught and logged, the handler goes on to its success response
AfterPublish(outcome, success, failure) == success

\* payment_servicer.py 72-186: field validation, the validate call, then the
\* transaction id and the PaymentModel object
ProcessPayment(w, r, g) ==
    /\ Dispatch(w, r)
    /\ LET v == validate_payment_amount(g.shape, r.amount + g.delta, g.status, r.amount)
           txn == uuid4(ids)
           l == [NoLoc EXCEPT !.currency = IF r.currency = "" THEN "EUR" ELSE r.currency]
       IN
       IF ProcessFieldError(r) # ""
         THEN /\ Return(w, PaymentResponse(FALSE, EmptyStr, ProcessFieldError(r), "INVALID_REQUEST"))
              /\ loc' = [loc EXCEPT ![w] = l]
              /\ UNCHANGED <<cnt, ids>>
       ELSE IF v # "ok"
         THEN /\ Return(w, ValidateFailure(v, ValidationErrorText(r.amount + g.delta,
                                                                    g.status, r.amount)))
              /\ loc' = [loc EXCEPT ![w] =
                           [l EXCEPT !.validated = v,
                                     !.reservation_info =
                                         Reported(g, r.tenant_id, r.user_id, r.amount)]]
              /\ cnt' = [cnt EXCEPT ![w].validate_calls = @ + 1]
              /\ ids' = ids
       ELSE IF UUIDRaises(r.reservation_id) \/ UUIDRaises(r.user_id) \/ UUIDRaises(r.tenant_id)
         THEN /\ Return(w, Raised)
              /\ loc' = [loc EXCEPT ![w] =
                           [l EXCEPT !.validated = v, !.transaction_id = txn,
                                     !.reservation_info =
                                         Reported(g, r.tenant_id, r.user_id, r.amount)]]
              /\ cnt' = [cnt EXCEPT ![w].validate_calls = @ + 1]
              /\ ids' = ids + 1
       ELSE /\ pc' = [pc EXCEPT ![w] = "pp_insert"]
            /\ resp' = resp
            /\ loc' = [loc EXCEPT ![w] =
                         [l EXCEPT !.validated = v, !.transaction_id = txn,
                                   !.reservation_info =
                                       Reported(g, r.tenant_id, r.user_id, r.amount),
                                   !.payment = PaymentModel(txn, UUIDOf(r.reservation_id),
                                                   UUIDOf(r.user_id), UUIDOf(r.tenant_id),
                                                   r.amount, l.currency)]]
            /\ cnt' = [cnt EXCEPT ![w].validate_calls = @ + 1]
            /\ ids' = ids + 1
    /\ UNCHANGED <<payments, events, rls, client, health>>

\* payment_servicer.py 188-191 with db.py 123-129: the session is created and
\* bound to the tenant, the PENDING row is added and flushed; the INSERT fills
\* created_at with its default (models.py 111-115).  reservation_info is read
\* nowhere after line 134 that assigns it: the handler state drops it here.
\* db: what the datastore does ("factory_raises": _get_session_local raises,
\* "flush_raises": the INSERT raises)
PP_Insert(w, db) ==
    /\ Running
    /\ pc[w] = "pp_insert"
    /\ LET r == req[w] IN
       IF db = "factory_raises"
         THEN /\ Return(w, ProcessDbFailure)
              /\ loc' = [loc EXCEPT ![w] = [@ EXCEPT !.db = db, !.payment = NoRow,
                                                     !.reservation_info = NoInfo]]
              /\ cnt' = cnt
       ELSE IF set_tenant_id_raises(r.tenant_id)
         THEN /\ Return(w, ProcessDbFailure)
              /\ loc' = [loc EXCEPT ![w] =
                           RolledBack([@ EXCEPT !.db = "tenant_invalid",
                                                !.reservation_info = NoInfo])]
              /\ cnt' = [cnt EXCEPT ![w].sessions = @ + 1]
       ELSE IF db = "flush_raises"
         THEN /\ Return(w, ProcessDbFailure)
              /\ loc' = [loc EXCEPT ![w] =
                           RolledBack(Execute(Bind([@ EXCEPT !.db = db,
                                                             !.reservation_info = NoInfo],
                                                   r.tenant_id),
                                              <<"INSERT">>))]
              /\ cnt' = [cnt EXCEPT ![w].sessions = @ + 1, ![w].statements = @ + 2]
       ELSE /\ pc' = [pc EXCEPT ![w] = "pp_confirm"]
            /\ resp' = resp
            /\ loc' = [loc EXCEPT ![w] =
                         Execute(Bind([@ EXCEPT !.payment.created_at = utcnow(calls),
                                                 !.reservation_info = NoInfo],
                                      r.tenant_id),
                                 <<"INSERT">>)]
            /\ cnt' = [cnt EXCEPT ![w].sessions = @ + 1, ![w].statements = @ + 2]
    /\ payments' = IF db = "ok" /\ ~set_tenant_id_raises(req[w].tenant_id)
                     THEN Flush(payments, [loc[w].payment EXCEPT !.created_at = utcnow(calls)])
                     ELSE payments
    /\ UNCHANGED <<req, events, calls, ids, rls, client, health>>

\* (mutant) the confirm mutation is posted with a transaction id of its own
str_transaction_id_Fresh(transaction_id) == StrOfUUID(Unissued)

\* payment_servicer.py 198: str(transaction_id), the transactionId variable
\* of the confirm mutation (reservation_client.py 240)
str_transaction_id(transaction_id) == StrOfUUID(transaction_id)

\* payment_servicer.py 193-214: the confirm call inside the session; a
\* ReservationClientError marks the row FAILED, any other exception leaves the
\* with-block (rollback) and is answered by the except clause of line 226
PP_Confirm(w, g) ==
    /\ Running
    /\ pc[w] = "pp_confirm"
    /\ LET c == confirm_reservation(g.shape, g.status) IN
       /\ cnt' = [cnt EXCEPT ![w].confirm_calls = @ + 1]
       /\ CASE c = "ok" ->
                 /\ pc' = [pc EXCEPT ![w] = "pp_commit"]
                 /\ resp' = resp
                 /\ loc' = [loc EXCEPT ![w].confirmed = c, ![w].payment.status = "COMPLETED",
                               ![w].sent = str_transaction_id(loc[w].transaction_id),
                               ![w].remote = g.effect]
            [] c \in ClientErrorKinds ->
                 /\ pc' = [pc EXCEPT ![w] = "pp_commit"]
                 /\ resp' = resp
                 /\ loc' = [loc EXCEPT ![w].confirmed = c, ![w].payment.status = "FAILED",
                               ![w].payment.error_message = ConfirmErrorText(c),
                               ![w].sent = str_transaction_id(loc[w].transaction_id),
                               ![w].remote = g.effect]
            [] OTHER ->
                 /\ Return(w, ProcessDbFailure)
                 /\ loc' = [loc EXCEPT ![w] =
                              RolledBack([@ EXCEPT
                                  !.confirmed = c,
                                  !.sent = str_transaction_id(loc[w].transaction_id),
                                  !.remote = g.effect])]
    /\ UNCHANGED <<payments, req, events, calls, ids, rls, client, health>>

\* payment_servicer.py 215-233: db.commit() of the FAILED row (215) or of the
\* COMPLETED row (224), then the exit of the with-block (db.py 130-135), whose
\* own commit finds no open transaction after a commit that succeeded
PP_Commit(w, db) ==
    /\ Quiet
    /\ pc[w] = "pp_commit"
    /\ LET l == loc[w] IN
       /\ cnt' = [cnt EXCEPT ![w].statements = @ + 1]
       /\ payments' = CommitInsert(payments, l.payment, db)
       /\ IF db = "commit_raises"
            THEN /\ Return(w, ProcessDbFailure)
                 /\ loc' = [loc EXCEPT ![w] =
                              RolledBack(Execute([@ EXCEPT !.db = db], <<"commit">>))]
          ELSE IF l.payment.status = "FAILED"
            THEN /\ Return(w, ConfirmFailure(l.transaction_id))
                 /\ loc' = [loc EXCEPT ![w] = Closed(Execute(@, <<"commit">>))]
          ELSE /\ pc' = [pc EXCEPT ![w] = "pp_publish"]
               /\ resp' = resp
               /\ loc' = [loc EXCEPT ![w] = Closed(Execute(@, <<"commit">>))]
    /\ UNCHANGED <<req, events, calls, ids, rls, client, health>>

\* publisher.py 111-140
PaymentProcessedEvent(transaction_id, reservation_id, user_id, amount, currency) ==
    [event_type |-> "payment.processed", transaction_id |-> transaction_id,
     reservation_id |-> reservation_id, user_id |-> user_id, amount |-> amount,
     currency |-> currency, refund_id |-> EmptyStr, reason |-> ""]

\* publisher.py 80-109 _publish_event: sent, an exception of the connection,
\* the exchange or the publish, or the logged no-op without RABBITMQ_HOST
PublishOutcomes == {"published", "raises", "disabled"}

\* payment_servicer.py 235-253: best-effort publish, then the success response
PP_Publish(w, outcome) ==
    /\ Running
    /\ pc[w] = "pp_publish"
    /\ LET r == req[w]
           txn == loc[w].transaction_id
       IN
       /\ events' = events \cup {PaymentProcessedEvent(StrOfUUID(txn), r.reservation_id,
                                                      r.user_id, r.amount, loc[w].currency)}
       /\ cnt' = [cnt EXCEPT ![w].publishes = @ + 1]
       /\ loc' = [loc EXCEPT ![w].published = outcome]
       /\ Return(w, AfterPublish(outcome, ProcessSuccess(txn), ProcessDbFailure))
    /\ UNCHANGED <<payments, req, calls, ids, rls, client, health>>

\* ------------------------------------------------------------ RefundPayment
\* db.py 7-10 and 173-179: with row-level security in force a session sees
\* the rows of the tenant it is bound to; on a datastore without it the
\* binding is a no-op and the session sees every row
query(table, bound) ==
    [t \in {u \in DOMAIN table : rls => table[u].tenant_id = bound} |-> table[t]]

\* db.query(PaymentModel).filter(transaction_id == txn).first()
first(table, txn) == IF txn \in DOMAIN table THEN table[txn] ELSE NoRow

\* payment_servicer.py 372-387
RefundFieldError(r) ==
    IF IsEmpty(r.transaction_id) THEN "transaction_id is required"
    ELSE IF IsEmpty(r.tenant_id) THEN "tenant_id is required"
    ELSE ""

\* (mutant) the requested amount is taken as it is, also when it is 0
refund_amount_Requested(r, payment) == r.amount

\* payment_servicer.py 433-434
refund_amount(r, payment) == IF r.amount > 0 THEN r.amount ELSE payment.amount

\* payment_servicer.py 453
refund_reason(r) == IF r.reason = "" THEN "Cancellation refund" ELSE r.reason

\* (mutant) the status check before the refund is missing
Refundable_Always(status) == TRUE

\* payment_servicer.py 424-425
Refundable(status) == status = "COMPLETED"

CannotRefund(status) ==
    CASE status = "PENDING" -> "Cannot refund payment with status: PENDING"
      [] status = "FAILED" -> "Cannot refund payment with status: FAILED"
      [] OTHER -> "Cannot refund payment with status"

\* (mutant) the tenant of the row is not compared with the tenant of the request
RefundRejection_NoTenantCheck(payment, r) ==
    IF payment = NoRow
      THEN RefundResponse(FALSE, EmptyStr, "Payment not found", "PAYMENT_NOT_FOUND")
    ELSE IF payment.status = "REFUNDED"
      THEN RefundResponse(FALSE,
                          IF payment.refund_id # NilUUID THEN StrOfUUID(payment.refund_id) ELSE EmptyStr,
                          "Payment has already been refunded", "PAYMENT_ALREADY_REFUNDED")
    ELSE IF ~Refundable(payment.status)
      THEN RefundResponse(FALSE, EmptyStr, CannotRefund(payment.status), "REFUND_NOT_ALLOWED")
    ELSE IF refund_amount(r, payment) > payment.amount
      THEN RefundResponse(FALSE, EmptyStr, "Refund amount exceeds original payment amount",
                          "INVALID_REQUEST")
    ELSE NoResp

\* payment_servicer.py 398-446: the response that rejects the refund, NoResp
\* when the refund goes ahead
RefundRejection(payment, r) ==
    IF payment = NoRow
      THEN RefundResponse(FALSE, EmptyStr, "Payment not found", "PAYMENT_NOT_FOUND")
    ELSE IF StrOfUUID(payment.tenant_id) # r.tenant_id
      THEN RefundResponse(FALSE, EmptyStr, "Payment not found", "PAYMENT_NOT_FOUND")
    ELSE IF payment.status = "REFUNDED"
      THEN RefundResponse(FALSE,
                          IF payment.refund_id # NilUUID THEN StrOfUUID(payment.refund_id) ELSE EmptyStr,
                          "Payment has already been refunded", "PAYMENT_ALREADY_REFUNDED")
    ELSE IF ~Refundable(payment.status)
      THEN RefundResponse(FALSE, EmptyStr, CannotRefund(payment.status), "REFUND_NOT_ALLOWED")
    ELSE IF refund_amount(r, payment) > payment.amount
      THEN RefundResponse(FALSE, EmptyStr, "Refund amount exceeds original payment amount",
                          "INVALID_REQUEST")
    ELSE NoResp

\* payment_servicer.py 482-489
RefundValueError ==
    RefundResponse(FALSE, EmptyStr, "Invalid transaction_id format", "INVALID_REQUEST")

\* payment_servicer.py 490-497
RefundDbFailure ==
    RefundResponse(FALSE, EmptyStr, "Internal error during refund processing", "INTERNAL_ERROR")

\* payment_servicer.py 475-480
RefundSuccess(refund_id) ==
    RefundResponse(TRUE, StrOfUUID(refund_id), "Refund processed successfully", "")

\* (mutant) the UPDATE leaves the timestamp of the refund out
Update_NoTimestamp(table, row) ==
    [table EXCEPT ![row.transaction_id] =
        [@ EXCEPT !.status = row.status, !.refund_id = row.refund_id,
                  !.refund_amount = row.refund_amount, !.refund_reason = row.refund_reason]]

\* the UPDATE that the commit of line 456 flushes: the columns assigned in
\* lines 450-454, on the row the session loaded
Update(table, row) ==
    [table EXCEPT ![row.transaction_id] =
        [@ EXCEPT !.status = row.status, !.refund_id = row.refund_id,
                  !.refund_amount = row.refund_amount, !.refund_reason = row.refund_reason,
                  !.refunded_at = row.refunded_at]]

\* (mutant) a commit that raised has written the refund all the same
CommitUpdate_NoRollback(table, row, db) == Update(table, row)

\* db.commit() of the refund: a commit that raises leaves the row as it was
CommitUpdate(table, row, db) ==
    IF db = "commit_raises" THEN table ELSE Update(table, row)

\* transaction ids a caller may send: those of the rows and one that was
\* never issued
KnownTxns == DOMAIN payments \cup {Unissued}

\* amount and reason of a refund request: full refund without a reason,
\* partial refund with one, more than any payment
RefundAsks == {<<0, "">>, <<4, "changed plans">>, <<11, "">>}

\* inputs of RefundPayment: for each row a request of its tenant with each
\* amount and reason, one of the other tenant, one that spells the
\* transaction id or the tenant id in upper case; a request for an id that
\* was never issued; requests with an empty or malformed id
RefundRequests ==
    {[NoReq EXCEPT !.rpc = "RefundPayment", !.transaction_id = Canon(t),
                   !.tenant_id = Canon(payments[t].tenant_id),
                   !.amount = a[1], !.reason = a[2]] :
        t \in DOMAIN payments, a \in RefundAsks}
    \cup {[NoReq EXCEPT !.rpc = "RefundPayment", !.transaction_id = Canon(t),
                        !.tenant_id = Canon(OtherTenant(payments[t].tenant_id))] :
            t \in DOMAIN payments}
    \cup {[NoReq EXCEPT !.rpc = "RefundPayment", !.transaction_id = Upper(t),
                        !.tenant_id = Canon(payments[t].tenant_id)] :
            t \in DOMAIN payments}
    \cup {[NoReq EXCEPT !.rpc = "RefundPayment", !.transaction_id = Canon(t),
                        !.tenant_id = Upper(payments[t].tenant_id), !.amount = a] :
            t \in DOMAIN payments, a \in {0, 11}}
    \cup {[NoReq EXCEPT !.rpc = "RefundPayment", !.transaction_id = s,
                        !.tenant_id = Canon(TenantA)] :
            s \in {EmptyStr, BadStr, Canon(Unissued)}}
    \cup {[NoReq EXCEPT !.rpc = "RefundPayment", !.transaction_id = Canon(Unissued),
                        !.tenant_id = s] :
            s \in {EmptyStr, BadStr}}

StatusRequests ==
    {[NoReq EXCEPT !.rpc = "GetPaymentStatus", !.transaction_id = s] :
        s \in {EmptyStr, BadStr} \cup {Canon(t) : t \in KnownTxns}
              \cup {Upper(t) : t \in KnownTxns}}

\* payment_servicer.py 344-454 with db.py 123-135: field validation, the
\* session bound to the tenant of the request, the lookup and the checks.
\* db: "factory_raises", "query_raises", "exit_raises" (the commit at the exit
\* of the with-block raises after an early return), or "ok"
RefundPayment(w, r, db) ==
    /\ Dispatch(w, r)
    /\ LET txn == UUIDOf(r.transaction_id)
           payment == first(query(payments, UUIDOf(r.tenant_id)), txn)
           rejection == RefundRejection(payment, r)
           rid == uuid4(ids)
           l == [NoLoc EXCEPT !.db = IF db = "ok" THEN "" ELSE db]
       IN
       IF RefundFieldError(r) # ""
         THEN /\ Return(w, RefundResponse(FALSE, EmptyStr, RefundFieldError(r), "INVALID_REQUEST"))
              /\ loc' = [loc EXCEPT ![w] = NoLoc]
              /\ UNCHANGED <<cnt, ids>>
       ELSE IF db = "factory_raises"
         THEN /\ Return(w, RefundDbFailure)
              /\ loc' = [loc EXCEPT ![w] = l]
              /\ UNCHANGED <<cnt, ids>>
       ELSE IF set_tenant_id_raises(r.tenant_id)
         THEN /\ Return(w, RefundValueError)
              /\ loc' = [loc EXCEPT ![w] = RolledBack(NoLoc)]
              /\ cnt' = [cnt EXCEPT ![w].sessions = @ + 1]
              /\ ids' = ids
       ELSE IF UUIDRaises(r.transaction_id)
         THEN /\ Return(w, RefundValueError)
              /\ loc' = [loc EXCEPT ![w] = RolledBack(Bind(NoLoc, r.tenant_id))]
              /\ cnt' = [cnt EXCEPT ![w].sessions = @ + 1, ![w].statements = @ + 1]
              /\ ids' = ids
       ELSE IF db = "query_raises"
         THEN /\ Return(w, RefundDbFailure)
              /\ loc' = [loc EXCEPT ![w] =
                           RolledBack(Execute(Bind(l, r.tenant_id), <<"SELECT">>))]
              /\ cnt' = [cnt EXCEPT ![w].sessions = @ + 1, ![w].statements = @ + 2]
              /\ ids' = ids
       ELSE IF rejection # NoResp
         THEN /\ IF db = "exit_raises"
                   THEN /\ Return(w, RefundDbFailure)
                        /\ loc' = [loc EXCEPT ![w] =
                                     RolledBack(Execute(Bind(l, r.tenant_id),
                                                        <<"SELECT", "commit">>))]
                   ELSE /\ Return(w, rejection)
                        /\ loc' = [loc EXCEPT ![w] =
                                     Closed(Execute(Bind(l, r.tenant_id), <<"SELECT">>))]
              /\ cnt' = [cnt EXCEPT ![w].sessions = @ + 1, ![w].statements = @ + 3]
              /\ ids' = ids
       ELSE /\ db = "ok"
            /\ pc' = [pc EXCEPT ![w] = "rf_commit"]
            /\ resp' = resp
            /\ loc' = [loc EXCEPT ![w] =
                         Execute(Bind([NoLoc EXCEPT
                                         !.transaction_id = txn, !.refund_id = rid,
                                         !.payment = [payment EXCEPT
                                             !.status = "REFUNDED", !.refund_id = rid,
                                             !.refund_amount = refund_amount(r, payment),
                                             !.refund_reason = refund_reason(r),
                                             !.refunded_at = utcnow(calls + 1)]],
                                      r.tenant_id),
                                 <<"SELECT">>)]
            /\ cnt' = [cnt EXCEPT ![w].sessions = @ + 1, ![w].statements = @ + 2]
            /\ ids' = ids + 1
    /\ UNCHANGED <<payments, events, rls, client, health>>

\* payment_servicer.py 456 with db.py 131-135: the commit of the refund, which
\* flushes the UPDATE; the with-block stays open for the publish
RF_Commit(w, db) ==
    /\ Quiet
    /\ pc[w] = "rf_commit"
    /\ cnt' = [cnt EXCEPT ![w].statements = @ + 2]
    /\ payments' = CommitUpdate(payments, loc[w].payment, db)
    /\ IF db = "commit_raises"
         THEN /\ Return(w, RefundDbFailure)
              /\ loc' = [loc EXCEPT ![w] =
                           RolledBack(Execute([@ EXCEPT !.db = db], <<"UPDATE", "commit">>))]
         ELSE /\ pc' = [pc EXCEPT ![w] = "rf_publish"]
              /\ resp' = resp
              /\ loc' = [loc EXCEPT ![w] = Execute(@, <<"UPDATE", "commit">>)]
    /\ UNCHANGED <<req, events, calls, ids, rls, client, health>>

\* publisher.py 142-168
PaymentRefundedEvent(refund_id, transaction_id, amount, reason) ==
    [event_type |-> "payment.refunded", transaction_id |-> transaction_id,
     reservation_id |-> EmptyStr, user_id |-> EmptyStr, amount |-> amount,
     currency |-> "", refund_id |-> refund_id, reason |-> reason]

\* payment_servicer.py 464-480 with db.py 130-135: the publish, inside the
\* with-block, then the return that leaves it
RF_Publish(w, outcome) ==
    /\ Running
    /\ pc[w] = "rf_publish"
    /\ LET r == req[w]
           l == loc[w]
       IN
       /\ events' = events \cup {PaymentRefundedEvent(StrOfUUID(l.refund_id), r.transaction_id,
                                                     l.payment.refund_amount, refund_reason(r))}
       /\ cnt' = [cnt EXCEPT ![w].publishes = @ + 1]
       /\ loc' = [loc EXCEPT ![w] = Closed([@ EXCEPT !.published = outcome])]
       /\ Return(w, AfterPublish(outcome, RefundSuccess(l.refund_id), RefundDbFailure))
    /\ UNCHANGED <<payments, req, calls, ids, rls, client, health>>

\* --------------------------------------------------------- GetPaymentStatus
\* (mutant) every failure of the lookup is signalled as not found
StatusFailure_NotFound(grpc_code, transaction_id) ==
    PaymentStatusResponse("NOT_FOUND", "", transaction_id, 0, "", NoTime)

\* payment_servicer.py 275-283, 296-304, 321-342: a status code on the gRPC
\* context and a response with empty fields
StatusFailure(grpc_code, transaction_id) ==
    PaymentStatusResponse(grpc_code, "", transaction_id, 0, "", NoTime)

\* payment_servicer.py 255-342 with db.py 123-135: one read in a session bound
\* to the default tenant
GetPaymentStatus(w, r, db) ==
    /\ Dispatch(w, r)
    /\ LET payment == first(query(payments, UUIDOf(DEFAULT_TENANT_ID)), UUIDOf(r.transaction_id))
           l == [NoLoc EXCEPT !.db = IF db = "ok" THEN "" ELSE db]
       IN
       IF IsEmpty(r.transaction_id)
         THEN /\ Return(w, StatusFailure("INVALID_ARGUMENT", EmptyStr))
              /\ loc' = [loc EXCEPT ![w] = NoLoc]
              /\ cnt' = cnt
       ELSE IF db = "factory_raises"
         THEN /\ Return(w, StatusFailure("INTERNAL", r.transaction_id))
              /\ loc' = [loc EXCEPT ![w] = l]
              /\ cnt' = cnt
       ELSE IF UUIDRaises(r.transaction_id)
         THEN /\ Return(w, StatusFailure("INVALID_ARGUMENT", r.transaction_id))
              /\ loc' = [loc EXCEPT ![w] = RolledBack(Bind(NoLoc, DEFAULT_TENANT_ID))]
              /\ cnt' = [cnt EXCEPT ![w].sessions = @ + 1, ![w].statements = @ + 1]
       ELSE IF db \in {"query_raises", "exit_raises"}
         THEN /\ Return(w, StatusFailure("INTERNAL", r.transaction_id))
              /\ loc' = [loc EXCEPT ![w] =
                           RolledBack(Execute(Bind(l, DEFAULT_TENANT_ID),
                                              IF db = "query_raises" THEN <<"SELECT">>
                                              ELSE <<"SELECT", "commit">>))]
              /\ cnt' = [cnt EXCEPT ![w].sessions = @ + 1,
                                    ![w].statements = @ + (IF db = "query_raises" THEN 2 ELSE 3)]
       ELSE /\ IF payment = NoRow
                 THEN Return(w, StatusFailure("NOT_FOUND", r.transaction_id))
                 ELSE Return(w, PaymentStatusResponse("OK", payment.status,
                                    StrOfUUID(payment.transaction_id), payment.amount,
                                    payment.currency, isoformat(payment.created_at)))
            /\ loc' = [loc EXCEPT ![w] = Closed(Execute(Bind(l, DEFAULT_TENANT_ID), <<"SELECT">>))]
            /\ cnt' = [cnt EXCEPT ![w].sessions = @ + 1, ![w].statements = @ + 3]
    /\ UNCHANGED <<payments, events, ids, rls, client, health>>

\* the response is handed to the gRPC layer and the worker goes back to the pool
Finish(w) ==
    /\ pc[w] = "done"
    /\ pc' = [pc EXCEPT ![w] = "idle"]
    /\ req' = [req EXCEPT ![w] = NoReq]
    /\ loc' = [loc EXCEPT ![w] = NoLoc]
    /\ resp' = [resp EXCEPT ![w] = NoResp]
    /\ cnt' = [cnt EXCEPT ![w] = NoCnt]
    /\ UNCHANGED <<payments, events, calls, ids, rls, client, health>>

LookupOutcomes == {"ok", "factory_raises", "query_raises", "exit_raises"}

Next ==
    \/ \E w \in Workers : Idle(w) /\ \E r \in ProcessRequests, g \in GetAnswers : ProcessPayment(w, r, g)
    \/ \E w \in Workers, db \in {"ok", "factory_raises", "flush_raises"} : PP_Insert(w, db)
    \/ \E w \in Workers, g \in ConfirmAnswers : PP_Confirm(w, g)
    \/ \E w \in Workers, db \in {"ok", "commit_raises"} : PP_Commit(w, db)
    \/ \E w \in Workers, outcome \in PublishOutcomes : PP_Publish(w, outcome)
    \/ \E w \in Workers : Idle(w) /\ \E r \in RefundRequests, db \in LookupOutcomes : RefundPayment(w, r, db)
    \/ \E w \in Workers, db \in {"ok", "commit_raises"} : RF_Commit(w, db)
    \/ \E w \in Workers, outcome \in PublishOutcomes : RF_Publish(w, outcome)
    \/ \E w \in Workers : Idle(w) /\ \E r \in StatusRequests, db \in LookupOutcomes : GetPaymentStatus(w, r, db)
    \/ \E w \in Workers : Finish(w)

Spec == Init /\ [][Next]_vars

\* ------------------------------------------------- the reservation client
\* The two operations of ReservationClient called directly, the servicer
\* standing still: every cost and amount up to MaxAmount (in units of 0.01),
\* every remote status, every transport result and body shape.
MaxAmount == 5

Amounts == 1..MaxAmount

ServicerVars == <<payments, pc, req, loc, resp, cnt, events, calls, ids, rls>>

\* the servicer before its first RPC, on an empty table
ServicerStart ==
    /\ payments = <<>>
    /\ ids = 0
    /\ pc = [w \in Workers |-> "idle"]
    /\ req = [w \in Workers |-> NoReq]
    /\ loc = [w \in Workers |-> NoLoc]
    /\ resp = [w \in Workers |-> NoResp]
    /\ cnt = [w \in Workers |-> NoCnt]
    /\ events = {}
    /\ calls = 0
    /\ rls = TRUE

ClientInit ==
    /\ ServicerStart
    /\ client = NoCall
    /\ health = NoHealth

\* reservation_client.py 166-210 called with amount, the remote answering with
\* the given shape (and cost and status when it is a reservation)
ValidateCall(shape, cost, status, amount) ==
    /\ client' = [op |-> "validate_payment_amount", shape |-> shape, total_cost |-> cost,
                  status |-> status, amount |-> amount,
                  result |-> validate_payment_amount(shape, cost, status, amount)]
    /\ UNCHANGED <<ServicerVars, health>>

\* reservation_client.py 212-272
ConfirmCall(shape, status) ==
    /\ client' = [op |-> "confirm_reservation", shape |-> shape, total_cost |-> 0,
                  status |-> status, amount |-> 0,
                  result |-> confirm_reservation(shape, status)]
    /\ UNCHANGED <<ServicerVars, health>>

ClientNext ==
    \/ \E amount \in Amounts :
          \/ \E cost \in Amounts, status \in RemoteStatuses :
                ValidateCall("reservation", cost, status, amount)
          \/ \E shape \in GetShapes \ {"reservation"} : ValidateCall(shape, 0, "", amount)
    \/ \E g \in ConfirmAnswers : ConfirmCall(g.shape, g.status)

ClientSpec == ClientInit /\ [][ClientNext]_vars

\* ------------------------------------------------------ the HTTP probes
\* main.py 205-233 with db.py 208-225: Kubernetes calls /health/live and
\* /health/ready again and again while the database comes and goes.
MaxProbes == 3

\* what the database does to a session that runs SELECT 1: it works, the
\* engine or session factory raises, the connection fails, the query raises,
\* the commit at the exit of the session raises
DatabaseStates == {"up", "engine_raises", "connect_raises", "query_raises", "commit_raises"}

\* db.py 88-106 get_db_context around the SELECT 1 of line 221: "ok" when the
\* with-block completes, "raises" when the factory, the statement or the
\* commit raises (rollback and close run, the exception goes on)
get_db_context(database) == IF database = "up" THEN "ok" ELSE "raises"

\* (mutant) the except clause of lines 223-225 is missing
check_db_connection_Propagates(url_set, database) ==
    IF ~url_set THEN "false"
    ELSE IF get_db_context(database) = "ok" THEN "true"
    ELSE "raises"

\* db.py 208-225: "true", "false", or "raises" when an exception leaves it
check_db_connection(url_set, database) ==
    IF ~url_set THEN "false"
    ELSE IF get_db_context(database) = "ok" THEN "true"
    ELSE "false"

\* main.py 216-233: the answer of /health/ready; an exception that leaves the
\* endpoint is answered 500 by the framework
health_ready(db_healthy) ==
    CASE db_healthy = "true" -> [http |-> "200", status |-> "ready", db |-> "healthy"]
      [] db_healthy = "false" -> [http |-> "200", status |-> "degraded", db |-> "unhealthy"]
      [] OTHER -> [http |-> "500", status |-> "", db |-> ""]

\* main.py 205-213
health_live == [http |-> "200", status |-> "alive", db |-> ""]

HealthInit ==
    /\ ServicerStart
    /\ client = NoCall
    /\ \E u \in BOOLEAN, d \in DatabaseStates :
          health = [NoHealth EXCEPT !.url_set = u, !.database = d]

\* the answer a of the probe is delivered
Answered(probe, a) ==
    /\ health.probes < MaxProbes
    /\ health' = [health EXCEPT !.probes = @ + 1, !.probe = probe, !.at = health.database,
                                !.http = a.http, !.status = a.status, !.db = a.db]
    /\ UNCHANGED <<ServicerVars, client>>

ReadinessProbe ==
    Answered("ready", health_ready(check_db_connection(health.url_set, health.database)))

LivenessProbe == Answered("live", health_live)

\* the database goes down, comes back or fails in another way
DatabaseChanges(d) ==
    /\ d # health.database
    /\ health' = [health EXCEPT !.database = d]
    /\ UNCHANGED <<ServicerVars, client>>

HealthNext ==
    \/ ReadinessProbe
    \/ LivenessProbe
    \/ \E d \in DatabaseStates : DatabaseChanges(d)

HealthSpec == HealthInit /\ [][HealthNext]_vars

\* ================================================================= claims
\* worker w has just returned from the handler of rpc
Done(w, rpc) == pc[w] = "done" /\ req[w].rpc = rpc

\* the row of transaction t as seen from inside the session that created it
\* and, once committed, from the table
RowStatus(t) ==
    IF t \in DOMAIN payments THEN payments[t].status
    ELSE IF \E w \in Workers : loc[w].payment.transaction_id = t
      THEN (CHOOSE p \in {loc[w].payment : w \in Workers} : p.transaction_id = t).status
    ELSE "NONE"

Txns == {uuid4(n) : n \in 0..(2 * (MaxCalls + 1))}

\* C1 as stated: whenever validate and confirm both succeed for a request
\* with non-empty ids and a positive amount, the call returns success with a
\* transaction id and no error code, the row is committed, and exactly one
\* payment.processed publish is attempted.
C1_Original ==
    \A w \in Workers :
        (/\ Done(w, "ProcessPayment")
         /\ ~IsEmpty(req[w].reservation_id) /\ ~IsEmpty(req[w].user_id)
         /\ ~IsEmpty(req[w].tenant_id) /\ req[w].amount > 0
         /\ loc[w].validated = "ok" /\ loc[w].confirmed = "ok")
        => (/\ resp[w].kind = "PaymentResponse"
            /\ resp[w].success
            /\ ~IsEmpty(resp[w].transaction_id)
            /\ resp[w].error_code = ""
            /\ UUIDOf(resp[w].transaction_id) \in DOMAIN payments
            /\ cnt[w].publishes = 1)

\* C1 (amended): whenever validate and confirm both succeed and the commit of
\* the row does not raise, the call returns success=true with the transaction
\* id of the row and an empty error code, exactly one payment.processed
\* publish is attempted, and the commit step put the row in the table with
\* status COMPLETED.
C1_ProcessSuccess ==
    /\ [](\A w \in Workers :
            (/\ Done(w, "ProcessPayment")
             /\ ~IsEmpty(req[w].reservation_id) /\ ~IsEmpty(req[w].user_id)
             /\ ~IsEmpty(req[w].tenant_id) /\ req[w].amount > 0
             /\ loc[w].validated = "ok" /\ loc[w].confirmed = "ok"
             /\ loc[w].db # "commit_raises")
            => (/\ resp[w].kind = "PaymentResponse"
                /\ resp[w].success
                /\ ~IsEmpty(resp[w].transaction_id)
                /\ resp[w].transaction_id = StrOfUUID(loc[w].transaction_id)
                /\ resp[w].error_code = ""
                /\ loc[w].transaction_id \in DOMAIN payments
                /\ payments[loc[w].transaction_id].status \in {"COMPLETED", "REFUNDED"}
                /\ cnt[w].publishes = 1
                /\ Cardinality({e \in events : /\ e.event_type = "payment.processed"
                                               /\ e.transaction_id = resp[w].transaction_id}) = 1))
    /\ [][\A w \in Workers :
            (pc[w] = "pp_commit" /\ pc'[w] = "pp_publish")
            => (/\ loc[w].transaction_id \in DOMAIN payments'
                /\ payments'[loc[w].transaction_id].status = "COMPLETED")]_vars

C1_Witness ==
    \E w \in Workers :
        /\ Done(w, "ProcessPayment")
        /\ resp[w].success
        /\ loc[w].confirmed = "ok"
        /\ payments[loc[w].transaction_id].status = "COMPLETED"

\* C2: when the confirm operation fails, for any reason, after the PENDING row
\* was flushed (and no database operation raises), the row is committed FAILED
\* with a non-empty error message and the response is a failure that carries
\* the row's transaction id and INTERNAL_ERROR.
C2_ConfirmFailureRecorded ==
    \A w \in Workers :
        (/\ Done(w, "ProcessPayment")
         /\ loc[w].confirmed \notin {"", "ok"}
         /\ loc[w].db = "")
        => (/\ loc[w].transaction_id \in DOMAIN payments
            /\ payments[loc[w].transaction_id].status = "FAILED"
            /\ payments[loc[w].transaction_id].error_message # ""
            /\ resp[w].kind = "PaymentResponse"
            /\ ~resp[w].success
            /\ resp[w].transaction_id = StrOfUUID(loc[w].transaction_id)
            /\ resp[w].error_code = "INTERNAL_ERROR")

\* C3: in every step the status of a payment row stays as it is or moves
\* PENDING -> COMPLETED, PENDING -> FAILED or COMPLETED -> REFUNDED; a row is
\* created PENDING, only a row that was never committed can disappear (the
\* rollback), and a FAILED or REFUNDED row of the table keeps its status.
LegalTransitions ==
    {<<"NONE", "PENDING">>, <<"PENDING", "COMPLETED">>, <<"PENDING", "FAILED">>,
     <<"COMPLETED", "REFUNDED">>}

C3_StatusTransitions ==
    [][\A t \in Txns :
          \/ RowStatus(t)' = RowStatus(t)
          \/ <<RowStatus(t), RowStatus(t)'>> \in LegalTransitions
          \/ RowStatus(t)' = "NONE" /\ t \notin DOMAIN payments]_vars

C3_Witness ==
    \E t, u \in DOMAIN payments :
        /\ payments[t].status = "REFUNDED"
        /\ payments[u].status = "FAILED"

\* C4: when validate fails with not-found, validation-failed,
\* service-unavailable or a generic client error, no row is created, no session
\* is opened, confirm is never called, nothing is published, and the response
\* is a failure with an empty transaction id.
C4_ValidateFailureAborts ==
    /\ [](\A w \in Workers :
            (Done(w, "ProcessPayment") /\ loc[w].validated \in ClientErrorKinds)
            => (/\ loc[w].payment = NoRow
                /\ cnt[w].sessions = 0 /\ cnt[w].statements = 0
                /\ cnt[w].confirm_calls = 0
                /\ cnt[w].publishes = 0
                /\ resp[w].kind = "PaymentResponse"
                /\ ~resp[w].success
                /\ resp[w].transaction_id = EmptyStr))
    /\ [][\A w \in Workers :
            (pc'[w] = "done" /\ pc[w] # "done" /\ loc'[w].validated \in ClientErrorKinds)
            => (payments' = payments /\ events' = events)]_vars

C4_Witness ==
    \E w \in Workers :
        /\ Done(w, "ProcessPayment")
        /\ loc[w].validated = "validation_failed"
        /\ resp[w].error_code = "AMOUNT_MISMATCH"

\* C5: every ProcessPayment response is success with an empty error code, or a
\* failure whose code is the one its cause determines: bad input ->
\* INVALID_REQUEST, not-found -> RESERVATION_NOT_FOUND, validation-failed ->
\* AMOUNT_MISMATCH, service-unavailable -> RESERVATION_SERVICE_UNAVAILABLE,
\* generic client error, confirm failure or database failure -> INTERNAL_ERROR.
ProcessCodes == {"INVALID_REQUEST", "RESERVATION_NOT_FOUND", "AMOUNT_MISMATCH",
                 "RESERVATION_SERVICE_UNAVAILABLE", "INTERNAL_ERROR"}

BadProcessInput(r) ==
    IsEmpty(r.reservation_id) \/ IsEmpty(r.user_id) \/ IsEmpty(r.tenant_id) \/ r.amount <= 0

CodeOfCause(w) ==
    IF BadProcessInput(req[w]) THEN "INVALID_REQUEST"
    ELSE IF loc[w].validated = "not_found" THEN "RESERVATION_NOT_FOUND"
    ELSE IF loc[w].validated = "validation_failed" THEN "AMOUNT_MISMATCH"
    ELSE IF loc[w].validated = "unavailable" THEN "RESERVATION_SERVICE_UNAVAILABLE"
    ELSE IF loc[w].validated = "client_error" THEN "INTERNAL_ERROR"
    ELSE IF loc[w].confirmed \notin {"", "ok"} THEN "INTERNAL_ERROR"
    ELSE IF loc[w].db # "" THEN "INTERNAL_ERROR"
    ELSE ""

C5_ErrorCodeOfCause ==
    \A w \in Workers :
        (Done(w, "ProcessPayment") /\ resp[w].kind = "PaymentResponse")
        => /\ resp[w].error_code = CodeOfCause(w)
           /\ resp[w].success <=> resp[w].error_code = ""
           /\ ~resp[w].success => resp[w].error_code \in ProcessCodes

C5_Witness ==
    \E w \in Workers :
        /\ Done(w, "ProcessPayment")
        /\ loc[w].db = "flush_raises"
        /\ resp[w].error_code = "INTERNAL_ERROR"

\* C6: every invocation of the three handlers ends with a response message,
\* whatever the identifiers of the request and whatever the gateway answers;
\* no exception leaves a handler.
C6_AlwaysResponds ==
    \A w \in Workers :
        pc[w] = "done"
        => resp[w].kind \in {"PaymentResponse", "RefundResponse", "PaymentStatusResponse"}

\* C7: when the session factory, the insert/flush or the commit raises in
\* ProcessPayment after validation succeeded, no row of that attempt is in the
\* table afterwards, the response is a failure with INTERNAL_ERROR and an
\* empty transaction id, and no event is published.
C7_DatabaseFailureRollsBack ==
    \A w \in Workers :
        (/\ Done(w, "ProcessPayment")
         /\ loc[w].validated = "ok"
         /\ loc[w].db \in {"factory_raises", "flush_raises", "commit_raises"})
        => (/\ loc[w].transaction_id \notin DOMAIN payments
            /\ resp[w].kind = "PaymentResponse"
            /\ ~resp[w].success
            /\ resp[w].error_code = "INTERNAL_ERROR"
            /\ resp[w].transaction_id = EmptyStr
            /\ cnt[w].publishes = 0
            /\ ~\E e \in events : e.transaction_id = StrOfUUID(loc[w].transaction_id))

C7_Witness ==
    \E w \in Workers :
        /\ Done(w, "ProcessPayment")
        /\ loc[w].db = "commit_raises"
        /\ loc[w].confirmed = "ok"

\* C8: the publish step of ProcessPayment and of RefundPayment leaves the
\* table as it is and ends in the success response of the committed row
\* (its transaction id, resp. its refund id, and an empty error code),
\* whether the publish succeeds, raises or is disabled.
C8_PublishNeverChangesOutcome ==
    [][\A w \in Workers :
          (pc[w] \in {"pp_publish", "rf_publish"} /\ pc'[w] = "done")
          => (/\ payments' = payments
              /\ resp'[w].success
              /\ resp'[w].error_code = ""
              /\ pc[w] = "pp_publish" =>
                    (/\ resp'[w].kind = "PaymentResponse"
                     /\ resp'[w].transaction_id = StrOfUUID(loc[w].transaction_id))
              /\ pc[w] = "rf_publish" =>
                    (/\ resp'[w].kind = "RefundResponse"
                     /\ resp'[w].refund_id = StrOfUUID(loc[w].refund_id)))]_vars

C8_Witness ==
    \E w \in Workers :
        /\ Done(w, "RefundPayment")
        /\ loc[w].published = "raises"
        /\ resp[w].success

\* C9: a ProcessPayment request with an empty reservation id, user id or
\* tenant id, or with amount <= 0, is answered success=false with
\* INVALID_REQUEST, and no gateway call, database session, statement or
\* publish was made for it.
C9_InvalidRequestTouchesNothing ==
    \A w \in Workers :
        (Done(w, "ProcessPayment") /\ BadProcessInput(req[w]))
        => (/\ resp[w].kind = "PaymentResponse"
            /\ ~resp[w].success
            /\ resp[w].error_code = "INVALID_REQUEST"
            /\ cnt[w] = NoCnt
            /\ loc[w].transaction_id = NilUUID)

C9_Witness ==
    \E w \in Workers :
        /\ Done(w, "ProcessPayment")
        /\ req[w].amount = 0
        /\ ~IsEmpty(req[w].reservation_id) /\ ~IsEmpty(req[w].user_id)
        /\ ~IsEmpty(req[w].tenant_id)
        /\ resp[w].error_code = "INVALID_REQUEST"

\* C10: in all three RPCs a request that is rejected because of its own
\* inputs (a missing field, a non-positive amount, an identifier that is not
\* a well-formed UUID) is rejected before any database session is opened, any
\* statement is executed and any gateway call is made.
InputDefect(r) ==
    CASE r.rpc = "ProcessPayment" ->
           \/ BadProcessInput(r)
           \/ UUIDRaises(r.reservation_id) \/ UUIDRaises(r.user_id) \/ UUIDRaises(r.tenant_id)
      [] r.rpc = "RefundPayment" ->
           UUIDRaises(r.transaction_id) \/ UUIDRaises(r.tenant_id)
      [] OTHER -> UUIDRaises(r.transaction_id)

C10_InputRejectedBeforeIO ==
    \A w \in Workers :
        (/\ pc[w] = "done"
         /\ InputDefect(req[w])
         /\ resp[w].error_code = "INVALID_REQUEST" \/ resp[w].grpc_code = "INVALID_ARGUMENT")
        => (/\ cnt[w].sessions = 0
            /\ cnt[w].statements = 0
            /\ cnt[w].validate_calls = 0
            /\ cnt[w].confirm_calls = 0)

\* the publish calls made for refunds of transaction t: RefundPayment makes
\* one, with the refund id it then returns, in each call that returns success
RefundedEvents(t) ==
    {e \in events : e.event_type = "payment.refunded" /\ UUIDOf(e.transaction_id) = t}

\* C11: for each payment the refund sub-record is written at most once, also
\* when RefundPayment calls for the same transaction id run concurrently on
\* different workers: at most one such call returns success, and a refund id
\* that is stored is never replaced.
C11_RefundWrittenOnce ==
    /\ [](\A t \in DOMAIN payments : Cardinality(RefundedEvents(t)) <= 1)
    /\ [][\A t \in DOMAIN payments :
            payments[t].refund_id # NilUUID
            => payments'[t].refund_id = payments[t].refund_id]_vars

\* the request of worker w names, with well-formed ids, a transaction that has
\* no row, or one whose row belongs to another tenant than the requesting one
NoRowOfTenant(w) ==
    /\ ~UUIDRaises(req[w].transaction_id)
    /\ ~UUIDRaises(req[w].tenant_id)
    /\ LET t == UUIDOf(req[w].transaction_id) IN
       \/ t \notin DOMAIN payments
       \/ payments[t].tenant_id # UUIDOf(req[w].tenant_id)

\* what RefundPayment answers for a transaction id that does not exist: not
\* found, or the internal error when a call to the datastore raised
AbsentResponse(db) ==
    IF db = ""
      THEN RefundResponse(FALSE, EmptyStr, "Payment not found", "PAYMENT_NOT_FOUND")
      ELSE RefundResponse(FALSE, EmptyStr, "Internal error during refund processing",
                          "INTERNAL_ERROR")

\* C12: a RefundPayment request for a transaction whose payment belongs to
\* another tenant gets the response of a request for a transaction id that
\* does not exist (success=false, empty refund id, "Payment not found",
\* PAYMENT_NOT_FOUND), whatever the status of the payment, and the step leaves
\* every row as it is.
C12_TenantMismatchIsAbsence ==
    /\ [](\A w \in Workers :
            (Done(w, "RefundPayment") /\ NoRowOfTenant(w))
            => resp[w] = AbsentResponse(loc[w].db))
    /\ [][\A w \in Workers :
            (pc[w] = "idle" /\ req'[w].rpc = "RefundPayment" /\ NoRowOfTenant(w)')
            => (payments' = payments /\ pc'[w] = "done")]_vars

C12_Witness ==
    \E w \in Workers : \E t \in DOMAIN payments :
        /\ Done(w, "RefundPayment")
        /\ req[w].transaction_id = Canon(t)
        /\ req[w].tenant_id = Canon(OtherTenant(payments[t].tenant_id))
        /\ payments[t].status = "REFUNDED"
        /\ ~rls
        /\ resp[w].error_code = "PAYMENT_NOT_FOUND"

\* the request of worker w comes from the tenant that owns the row of its
\* transaction id, the row has status st, no call to the datastore raised and
\* the invocation wrote no refund itself
ByOwner(w, st) ==
    /\ Done(w, "RefundPayment")
    /\ ~UUIDRaises(req[w].transaction_id)
    /\ ~UUIDRaises(req[w].tenant_id)
    /\ UUIDOf(req[w].transaction_id) \in DOMAIN payments
    /\ payments[UUIDOf(req[w].transaction_id)].tenant_id = UUIDOf(req[w].tenant_id)
    /\ payments[UUIDOf(req[w].transaction_id)].status = st
    /\ loc[w].db = ""
    /\ loc[w].refund_id = NilUUID

\* C13: once a payment is REFUNDED, every later RefundPayment call for it by
\* the owning tenant, with any amount and reason, returns success=false with
\* PAYMENT_ALREADY_REFUNDED and the refund id that the successful refund
\* returned, and leaves the stored refund id, amount, reason and timestamp
\* unchanged.
C13_AlreadyRefunded ==
    /\ [](\A w \in Workers :
            ByOwner(w, "REFUNDED")
            => LET t == UUIDOf(req[w].transaction_id) IN
               /\ resp[w] = RefundResponse(FALSE, StrOfUUID(payments[t].refund_id),
                                           "Payment has already been refunded",
                                           "PAYMENT_ALREADY_REFUNDED")
               /\ \A e \in RefundedEvents(t) : e.refund_id = resp[w].refund_id)
    /\ [][\A w \in Workers :
            (pc[w] = "idle" /\ ByOwner(w, "REFUNDED")') => payments' = payments]_vars

NoRefundFields(row) ==
    /\ row.refund_id = NilUUID
    /\ row.refund_amount = 0
    /\ row.refund_reason = ""
    /\ row.refunded_at = 0

\* C15: a RefundPayment request of its owner on a COMPLETED payment, asking
\* for more than the original amount, is answered success=false with
\* INVALID_REQUEST when no call to the datastore raises, and the payment stays
\* COMPLETED with no refund field set.
C15_RefundExceedsAmount ==
    \A w \in Workers :
        (/\ ByOwner(w, "COMPLETED")
         /\ req[w].amount > payments[UUIDOf(req[w].transaction_id)].amount)
        => (/\ ~resp[w].success
            /\ resp[w].error_code = "INVALID_REQUEST"
            /\ resp[w].refund_id = EmptyStr
            /\ NoRefundFields(payments[UUIDOf(req[w].transaction_id)]))

\* C16: a RefundPayment request of the owning tenant against a payment whose
\* status is FAILED or PENDING is answered, when no call to the datastore
\* raises, success=false with REFUND_NOT_ALLOWED, an empty refund id and a
\* message that names the status.
C16_RefundNotAllowed ==
    \A w \in Workers : \A st \in {"FAILED", "PENDING"} :
        ByOwner(w, st)
        => resp[w] = RefundResponse(FALSE, EmptyStr,
                        IF st = "FAILED" THEN "Cannot refund payment with status: FAILED"
                                         ELSE "Cannot refund payment with status: PENDING",
                        "REFUND_NOT_ALLOWED")

\* the refund columns of a row are all set
AllRefundFields(row) ==
    /\ row.refund_id # NilUUID
    /\ row.refund_amount > 0
    /\ row.refund_reason # ""
    /\ row.refunded_at > 0

\* C17: in every reachable state each payment row has its refund id, refund
\* amount, refund reason and refund timestamp all unset or all set, they are
\* set exactly when the status is REFUNDED, and when set the refund amount is
\* at most the amount of the payment.
C17_RefundFieldsTogether ==
    \A t \in DOMAIN payments :
        LET row == payments[t] IN
        /\ NoRefundFields(row) \/ AllRefundFields(row)
        /\ AllRefundFields(row) <=> row.status = "REFUNDED"
        /\ AllRefundFields(row) => row.refund_amount <= row.amount

C17_Witness ==
    \E t, u \in DOMAIN payments :
        /\ payments[t].status = "REFUNDED"
        /\ payments[t].refund_amount < payments[t].amount
        /\ payments[u].status \in {"COMPLETED", "FAILED"}

\* worker w runs a ProcessPayment that holds a PaymentModel not yet committed
Inserting(w) == pc[w] \in {"pp_insert", "pp_confirm", "pp_commit"}

\* C18: in every reachable state no two payment rows, of the same or of
\* different tenants, have the same transaction id: each row is found under
\* its own transaction id, a transaction id that ProcessPayment generates is
\* that of no row and of no other insert in progress, and a row keeps its
\* transaction id for as long as the store lives.
C18_TransactionIdUnique ==
    /\ [](/\ \A t \in DOMAIN payments : payments[t].transaction_id = t
          /\ \A w \in Workers :
                Inserting(w)
                => (/\ loc[w].payment.transaction_id = loc[w].transaction_id
                    /\ loc[w].transaction_id \notin DOMAIN payments
                    /\ \A v \in Workers \ {w} :
                          Inserting(v) => loc[v].transaction_id # loc[w].transaction_id))
    /\ [][\A t \in DOMAIN payments :
            t \in DOMAIN payments' /\ payments'[t].transaction_id = t]_vars

C18_Witness ==
    \E w, v \in Workers : \E t \in DOMAIN payments :
        /\ w # v
        /\ pc[w] = "pp_commit"
        /\ pc[v] = "pp_commit"
        /\ loc[w].payment.tenant_id # loc[v].payment.tenant_id
        /\ payments[t].status = "COMPLETED"

\* the row that the lookup of the RefundPayment or GetPaymentStatus invocation
\* of worker w returned, NoRow when the query did not run or found nothing
RowRead(w) ==
    IF \/ req[w].rpc \notin {"RefundPayment", "GetPaymentStatus"}
       \/ UUIDRaises(req[w].transaction_id)
       \/ loc[w].bound = NilUUID
       \/ loc[w].db \in {"factory_raises", "query_raises"}
      THEN NoRow
      ELSE first(query(payments, loc[w].bound), UUIDOf(req[w].transaction_id))

\* C19: every read and write of a payment row by a handler (the insert and
\* the status update of ProcessPayment, the lookup of GetPaymentStatus, the
\* lookup and the update of RefundPayment) happens in a session bound to the
\* tenant that owns the row.
C19_SessionOfOwner ==
    \A w \in Workers :
        /\ pc[w] \in {"pp_confirm", "pp_commit", "rf_commit"}
           => loc[w].bound = loc[w].payment.tenant_id
        /\ (pc[w] = "done" /\ RowRead(w) # NoRow)
           => loc[w].bound = RowRead(w).tenant_id

\* the status, amount and currency of a PaymentStatusResponse are empty/zero
EmptyStatusFields(r) == r.status = "" /\ r.amount = 0 /\ r.currency = ""

StatusOfRow(w) ==
    /\ Done(w, "GetPaymentStatus")
    /\ ~UUIDRaises(req[w].transaction_id)
    /\ UUIDOf(req[w].transaction_id) \in DOMAIN payments
    /\ loc[w].db = ""

\* C21: for every committed payment row, whichever tenant owns it,
\* GetPaymentStatus called with its transaction id returns (when no call to
\* the datastore raises) the current status, amount, currency and creation
\* time of that row, and not a not-found signal, although the lookup runs in a
\* session bound to the default tenant.
C21_StatusOfAnyTenant ==
    \A w \in Workers :
        StatusOfRow(w)
        => LET row == payments[UUIDOf(req[w].transaction_id)] IN
           /\ loc[w].bound = UUIDOf(DEFAULT_TENANT_ID)
           /\ resp[w] = PaymentStatusResponse("OK", row.status, StrOfUUID(row.transaction_id),
                                              row.amount, row.currency,
                                              isoformat(row.created_at))

\* the tenant id that the handler of worker w gives to the session provider
GivenTenant(w) ==
    IF req[w].rpc = "GetPaymentStatus" THEN DEFAULT_TENANT_ID ELSE req[w].tenant_id

\* the binding or the body of the with-block of worker w raised: a tenant or
\* transaction id that UUID() rejects, a statement or a commit of the body, a
\* gateway answer that raises something else than a ReservationClientError
BindingOrBodyRaised(w) ==
    \/ loc[w].db \in {"tenant_invalid", "flush_raises", "query_raises", "commit_raises"}
    \/ loc[w].confirmed = "exception"
    \/ /\ req[w].rpc \in {"RefundPayment", "GetPaymentStatus"}
       /\ UUIDRaises(req[w].transaction_id) \/ UUIDRaises(GivenTenant(w))

\* the operations of ops from position i on
From(ops, i) == SubSeq(ops, i, Len(ops))

\* C22: in every use of the tenant-scoped session provider the SET of the
\* tenant binding (the tenant given, or the default tenant when none is given)
\* is the first statement of the session, before any INSERT, SELECT, UPDATE or
\* commit; and when the handler returns the session is closed, close being its
\* last operation: after a commit when the body completed without raising
\* (with a rollback in between only when that commit raised), after a rollback
\* and without the provider's commit when the binding or the body raised.
\* Operations are only ever appended, and none after the close.
C22_BindFirstCloseLast ==
    /\ [](\A w \in Workers :
            LET ops == loc[w].ops IN
            /\ \A i \in 1..Len(ops) :
                  ops[i] \in {"INSERT", "SELECT", "UPDATE", "commit"}
                  => (/\ i > 1
                      /\ ops[1] = "SET"
                      /\ loc[w].bound = UUIDOf(effective_tenant_id(GivenTenant(w))))
            /\ \A i \in 2..Len(ops) : ops[i] # "SET"
            /\ pc[w] = "idle" => ops = <<>>
            /\ (pc[w] = "done" /\ cnt[w].sessions = 0) => ops = <<>>
            /\ (pc[w] = "done" /\ cnt[w].sessions = 1)
               => (/\ Len(ops) >= 2
                   /\ ops[Len(ops)] = "close"
                   /\ \A i \in 1..(Len(ops) - 1) : ops[i] # "close"
                   /\ IF BindingOrBodyRaised(w)
                        THEN /\ ops[Len(ops) - 1] = "rollback"
                             /\ loc[w].db # "commit_raises"
                                => \A i \in 1..Len(ops) : ops[i] # "commit"
                        ELSE /\ \E i \in 1..Len(ops) : ops[i] = "commit"
                             /\ IF loc[w].db = "exit_raises"
                                  THEN From(ops, Len(ops) - 2) = <<"commit", "rollback", "close">>
                                  ELSE /\ ops[Len(ops) - 1] = "commit"
                                       /\ \A i \in 1..Len(ops) : ops[i] # "rollback"))
    /\ [][\A w \in Workers :
            LET ops == loc[w].ops IN
            \/ loc'[w].ops = <<>> /\ pc'[w] = "idle"
            \/ /\ Len(loc'[w].ops) >= Len(ops)
               /\ SubSeq(loc'[w].ops, 1, Len(ops)) = ops
               /\ (ops # <<>> /\ ops[Len(ops)] = "close") => loc'[w].ops = ops]_vars

C22_Witness ==
    \E w \in Workers :
        /\ Done(w, "RefundPayment")
        /\ loc[w].db = "commit_raises"
        /\ loc[w].ops = <<"SET", "SELECT", "UPDATE", "commit", "rollback", "close">>
        /\ \E e \in events : e.event_type = "payment.processed"

\* the handler of worker w called the session provider, which created the
\* session, with a tenant id that is not a well-formed UUID
MalformedTenantGiven(w) ==
    /\ cnt[w].sessions = 1
    /\ ~IsEmpty(GivenTenant(w))
    /\ UUIDRaises(GivenTenant(w))

ValidatedPayable ==
    /\ client.op = "validate_payment_amount"
    /\ client.shape = "reservation"
    /\ client.status \in {"PENDING", "CONFIRMED"}

\* C24: for a reservation in a payable status the amount validation passes
\* when |cost - amount| <= 0.01 and fails with validation-failed when
\* |cost - amount| > 0.01 (one unit of the fixed-point amounts): the result is
\* determined by the absolute difference and is the same with cost and amount
\* exchanged, whether the amount is above or below the cost.
C24_AmountToleranceSymmetric ==
    ValidatedPayable
    => (/\ Abs(client.total_cost - client.amount) <= 1 => client.result = "ok"
        /\ Abs(client.total_cost - client.amount) > 1 => client.result = "validation_failed"
        /\ client.result = validate_payment_amount(client.shape, client.amount, client.status,
                                                   client.total_cost))

C24_Witness ==
    /\ ValidatedPayable
    /\ client.amount = client.total_cost + 2
    /\ client.result = "validation_failed"

\* C25: every call of the client's validate and confirm operations ends in
\* success or in exactly one error of the taxonomy {not-found,
\* validation-failed, service-unavailable, generic client error}, for every
\* transport result and every shape of the response body; no other kind of
\* failure reaches the caller.
C25_ClosedTaxonomy ==
    client.op \in {"validate_payment_amount", "confirm_reservation"}
    => client.result \in {"ok"} \cup ClientErrorKinds

\* C26: ProcessPayment calls for the same reservation are not deduplicated.
\* A commit of ProcessPayment that does not raise adds the row of its own
\* transaction id to the table whatever rows the table holds, also one for the
\* same reservation, and leaves the other rows as they are; so two calls that
\* pass validation, concurrent or one after the other, leave two rows with
\* distinct transaction ids for one reservation.
C26_NoDeduplication ==
    [][\A w \in Workers :
          (pc[w] = "pp_commit" /\ pc'[w] # "pp_commit" /\ loc'[w].db # "commit_raises")
          => LET txn == loc[w].transaction_id IN
             /\ txn \notin DOMAIN payments
             /\ DOMAIN payments' = DOMAIN payments \cup {txn}
             /\ payments'[txn] = loc[w].payment
             /\ payments'[txn].reservation_id = UUIDOf(req[w].reservation_id)
             /\ \A t \in DOMAIN payments : payments'[t] = payments[t]]_vars

C26_Witness ==
    \E t, u \in DOMAIN payments :
        /\ t # u
        /\ payments[t].reservation_id = payments[u].reservation_id
        /\ payments[t].tenant_id = payments[u].tenant_id
        /\ payments[t].user_id = payments[u].user_id
        /\ payments[t].status = "COMPLETED"
        /\ payments[u].status = "COMPLETED"

\* C27: every ProcessPayment invocation ends with a response message after at
\* most one validate call and at most one confirm call; a confirm call that
\* times out is not re-issued and, when the commit does not raise, the payment
\* is committed FAILED; a publish that fails is not attempted again.
C27_RespondsWithoutRetry ==
    \A w \in Workers :
        /\ req[w].rpc = "ProcessPayment"
           => (/\ cnt[w].validate_calls <= 1
               /\ cnt[w].confirm_calls <= 1
               /\ cnt[w].publishes <= 1)
        /\ Done(w, "ProcessPayment")
           => (/\ resp[w].kind = "PaymentResponse"
               /\ (loc[w].confirmed = "unavailable" /\ loc[w].db = "")
                  => (/\ cnt[w].confirm_calls = 1
                      /\ loc[w].transaction_id \in DOMAIN payments
                      /\ payments[loc[w].transaction_id].status = "FAILED"
                      /\ ~resp[w].success)
               /\ loc[w].published = "raises" => cnt[w].publishes = 1)

\* the reservation that the validate call of worker w returned belongs to the
\* user and the tenant of the request
OwnedByRequester(w) ==
    /\ UUIDOf(loc[w].reservation_info.user_id) = UUIDOf(req[w].user_id)
    /\ UUIDOf(loc[w].reservation_info.tenant_id) = UUIDOf(req[w].tenant_id)

\* C28: ProcessPayment creates a payment row (builds the PaymentModel and
\* executes its INSERT) only when the user id and the tenant id that the
\* gateway reports for the reservation are those of the request.
C28_OwnershipValidated ==
    [][\A w \in Workers :
          (pc[w] = "pp_insert" /\ pc'[w] = "pp_confirm")
          => (/\ loc'[w].payment.status = "PENDING"
              /\ OwnedByRequester(w))]_vars

\* C29: the readiness probe always answers 200, whatever the state of the
\* database: status "ready" with database "healthy" exactly when DATABASE_URL
\* is set and the session with its SELECT 1 completes, status "degraded" with
\* database "unhealthy" otherwise (the database check returns false and never
\* raises when the URL is unset or the factory, connection, query or commit
\* fails); the liveness probe always answers 200 with status "alive".
C29_ProbesAlwaysAnswer ==
    /\ health.probe = "ready"
       => (/\ health.http = "200"
           /\ IF health.url_set /\ health.at = "up"
                THEN health.status = "ready" /\ health.db = "healthy"
                ELSE health.status = "degraded" /\ health.db = "unhealthy")
    /\ health.probe = "live"
       => (health.http = "200" /\ health.status = "alive")
    /\ \A u \in BOOLEAN, d \in DatabaseStates :
          /\ check_db_connection(u, d) \in {"true", "false"}
          /\ check_db_connection(u, d) = "true" <=> (u /\ d = "up")

C29_Witness ==
    /\ health.probe = "ready"
    /\ health.url_set
    /\ health.at = "commit_raises"
    /\ health.status = "degraded"
    /\ health.database = "up"
    /\ health.probes = 2

\* worker w takes the last step of a GetPaymentStatus call, or of a
\* RefundPayment call that returns success=false
EndsWithoutEffect(w) ==
    /\ pc[w] # "done"
    /\ pc'[w] = "done"
    /\ \/ req'[w].rpc = "GetPaymentStatus"
       \/ req'[w].rpc = "RefundPayment" /\ resp'[w].kind = "RefundResponse" /\ ~resp'[w].success

\* C30: every GetPaymentStatus call, and every RefundPayment call that returns
\* success=false (missing or malformed input, payment not found, tenant
\* mismatch, already refunded, refund not allowed, amount above the original,
\* internal error), leaves every field of every payment row as it was and
\* publishes no event: neither its first step (validation and lookup) nor its
\* last changes the table or the events, and it has made no publish call.
C30_ReadOnlyCalls ==
    /\ [][\A w \in Workers :
            (\/ pc[w] = "idle" /\ req'[w].rpc \in {"GetPaymentStatus", "RefundPayment"}
             \/ EndsWithoutEffect(w))
            => (payments' = payments /\ events' = events)]_vars
    /\ [](\A w \in Workers :
            (\/ Done(w, "GetPaymentStatus")
             \/ Done(w, "RefundPayment") /\ ~resp[w].success)
            => (/\ cnt[w].publishes = 0
                /\ loc[w].published = ""
                /\ loc[w].refund_id # NilUUID
                   => \A t \in DOMAIN payments : payments[t].refund_id # loc[w].refund_id))

C30_Witness ==
    \E w \in Workers :
        /\ Done(w, "RefundPayment")
        /\ ~resp[w].success
        /\ loc[w].db = "commit_raises"
        /\ loc[w].refund_id # NilUUID
        /\ payments[UUIDOf(req[w].transaction_id)].status = "COMPLETED"
        /\ NoRefundFields(payments[UUIDOf(req[w].transaction_id)])

\* the events whose publish is attempted in this step
Attempted == events' \ events

\* the committed row that the event e is about is in one of the given statuses
RowOfEventIn(e, table, statuses) ==
    /\ UUIDOf(e.transaction_id) \in DOMAIN table
    /\ table[UUIDOf(e.transaction_id)].status \in statuses

\* C31: when the publish of a payment.processed event is attempted, the row of
\* its transaction is in the table, committed COMPLETED by the publishing call
\* (a refund may have moved it on to REFUNDED since), and when the publish of a
\* payment.refunded event is attempted the row is in the table with status
\* REFUNDED; a ProcessPayment call that ends with a FAILED row or with its
\* transaction rolled back has attempted no publish, and no event names its
\* transaction id.
C31_PublishAfterCommit ==
    /\ [][\A e \in Attempted :
            /\ e.event_type = "payment.processed"
               => /\ RowOfEventIn(e, payments, {"COMPLETED", "REFUNDED"})
                  /\ \E w \in Workers :
                        /\ pc[w] = "pp_publish"
                        /\ StrOfUUID(loc[w].transaction_id) = e.transaction_id
                        /\ loc[w].payment.status = "COMPLETED"
                        /\ loc[w].session = "committed"
            /\ e.event_type = "payment.refunded"
               => /\ RowOfEventIn(e, payments, {"REFUNDED"})
                  /\ \E w \in Workers :
                        /\ pc[w] = "rf_publish"
                        /\ req[w].transaction_id = e.transaction_id
                        /\ "commit" = loc[w].ops[Len(loc[w].ops)]]_vars
    /\ [](\A e \in events :
            /\ e.event_type = "payment.processed"
               => RowOfEventIn(e, payments, {"COMPLETED", "REFUNDED"})
            /\ e.event_type = "payment.refunded"
               => RowOfEventIn(e, payments, {"REFUNDED"}))
    /\ [](\A w \in Workers :
            (/\ Done(w, "ProcessPayment")
             /\ \/ loc[w].payment.status = "FAILED"
                \/ loc[w].session = "rolled_back")
            => (/\ cnt[w].publishes = 0
                /\ \A e \in events :
                      loc[w].transaction_id # NilUUID
                      => e.transaction_id # StrOfUUID(loc[w].transaction_id)))

\* a payment was processed and then refunded, and the publish of each of the
\* two events was attempted
C31_Witness ==
    \E e, f \in events :
        /\ e.event_type = "payment.processed"
        /\ f.event_type = "payment.refunded"
        /\ f.transaction_id = e.transaction_id
        /\ RowOfEventIn(e, payments, {"REFUNDED"})

\* the session of worker w holds a row that it has flushed and not committed
Uncommitted(w) ==
    /\ pc[w] \in {"pp_confirm", "pp_commit"}
    /\ loc[w].payment.transaction_id \notin DOMAIN payments

\* C32: no row of the table (the committed rows, which the sessions of other
\* calls read) is in status PENDING; a PENDING row exists only in the session
\* of a ProcessPayment call between its flush and its confirm call, and no
\* GetPaymentStatus or RefundPayment call reports or meets status PENDING.
C32_NoPendingCommitted ==
    /\ \A t \in DOMAIN payments : payments[t].status # "PENDING"
    /\ \A w \in Workers :
          /\ loc[w].payment.status = "PENDING"
             => /\ pc[w] \in {"pp_insert", "pp_confirm"}
                /\ loc[w].payment.transaction_id \notin DOMAIN payments
          /\ Done(w, "GetPaymentStatus") => resp[w].status # "PENDING"
          /\ Done(w, "RefundPayment") => resp[w].message # CannotRefund("PENDING")

\* a ProcessPayment call holds its flushed row uncommitted while a
\* GetPaymentStatus or RefundPayment call of another worker has read the table
C32_Witness ==
    \E w, v \in Workers :
        /\ Uncommitted(w)
        /\ loc[w].ops = <<"SET", "INSERT">>
        /\ pc[v] = "done"
        /\ req[v].rpc \in {"GetPaymentStatus", "RefundPayment"}
        /\ "SELECT" \in {loc[v].ops[i] : i \in DOMAIN loc[v].ops}

\* the rows of the table and the rows held in the sessions of the workers
RowsAnywhere ==
    {payments[t] : t \in DOMAIN payments}
    \cup {loc[w].payment : w \in {v \in Workers : loc[v].payment # NoRow}}

\* C33: in every reachable state a payment row, committed or held in a
\* session, has a non-empty error message exactly when its status is FAILED;
\* no step changes the error message of a row of the table, so RefundPayment
\* and GetPaymentStatus never set or change it.
C33_ErrorMessageIffFailed ==
    /\ [](\A row \in RowsAnywhere : (row.error_message # "") <=> (row.status = "FAILED"))
    /\ [][\A t \in DOMAIN payments :
            /\ t \in DOMAIN payments'
            /\ payments'[t].error_message = payments[t].error_message]_vars
    /\ [](\A w \in Workers :
            req[w].rpc \in {"RefundPayment", "GetPaymentStatus"}
            => loc[w].payment.error_message = "")

\* a FAILED row with its message is in the table, next to a row without one,
\* and a RefundPayment call for the FAILED row has just been turned down
C33_Witness ==
    \E t, u \in DOMAIN payments, w \in Workers :
        /\ payments[t].status = "FAILED"
        /\ payments[t].error_message # ""
        /\ payments[u].status # "FAILED"
        /\ Done(w, "RefundPayment")
        /\ UUIDOf(req[w].transaction_id) = t
        /\ resp[w].error_code = "REFUND_NOT_ALLOWED"

\* the gateway reported a reservation to the validate call of worker w, which
\* has returned from ProcessPayment without going on to the session
ValidatedReservation(w) ==
    /\ Done(w, "ProcessPayment")
    /\ ProcessFieldError(req[w]) = ""
    /\ loc[w].reservation_info # NoInfo

CostMatches(w) == Abs(loc[w].reservation_info.total_cost - req[w].amount) <= Tolerance

StatusPayable(w) == loc[w].reservation_info.status \in {"PENDING", "CONFIRMED"}

\* C34: when the cost that the gateway reports matches the requested amount
\* within the tolerance and the reported status is neither PENDING nor
\* CONFIRMED, the validate call fails with validation-failed over the status,
\* ProcessPayment answers success=false with AMOUNT_MISMATCH and no transaction
\* id, and no payment row is built, inserted or committed; when the cost is off
\* as well, the failure reported is the amount mismatch.
C34_StatusMismatch ==
    /\ [](\A w \in Workers :
            (ValidatedReservation(w) /\ ~StatusPayable(w))
            => (/\ loc[w].validated = "validation_failed"
                /\ resp[w].kind = "PaymentResponse"
                /\ ~resp[w].success
                /\ resp[w].error_code = "AMOUNT_MISMATCH"
                /\ resp[w].transaction_id = EmptyStr
                /\ resp[w].message =
                      (IF CostMatches(w)
                         THEN "Cannot process payment for reservation with status"
                         ELSE "Payment amount does not match reservation cost")
                /\ loc[w].payment = NoRow
                /\ loc[w].transaction_id = NilUUID
                /\ cnt[w].sessions = 0 /\ cnt[w].statements = 0
                /\ cnt[w].confirm_calls = 0))
    /\ [][\A w \in Workers :
            (pc[w] # "done" /\ ValidatedReservation(w)' /\ ~StatusPayable(w)')
            => payments' = payments]_vars

\* the reported cost differs from the amount by exactly the tolerance, the
\* reported status is CANCELLED, and the call was answered AMOUNT_MISMATCH
C34_Witness ==
    \E w \in Workers :
        /\ ValidatedReservation(w)
        /\ loc[w].reservation_info.total_cost = req[w].amount + Tolerance
        /\ loc[w].reservation_info.status = "CANCELLED"
        /\ resp[w].error_code = "AMOUNT_MISMATCH"

\* the steps of a ProcessPayment call after the one that generated its
\* transaction id
AfterGenerated(w) == pc[w] \in {"pp_insert", "pp_confirm", "pp_commit", "pp_publish"}

\* C35: one ProcessPayment invocation generates a single transaction id; the
\* id posted to the confirm mutation, the id of the payment row, the id in the
\* response on success and on every confirm failure, and the id of the
\* payment.processed event are that id, and the reservation id, user id, amount
\* and currency of the event are those of the committed row.
C35_OneTransactionId ==
    /\ [][\A w \in Workers :
            /\ AfterGenerated(w)
               => /\ loc'[w].transaction_id = loc[w].transaction_id
                  /\ pc'[w] # pc[w] => ids' = ids
            /\ (pc[w] = "idle" /\ req'[w].rpc = "ProcessPayment") => ids' \in {ids, ids + 1}
            /\ (pc[w] = "pp_publish" /\ pc'[w] = "done")
               => \E e \in events' :
                     /\ Attempted = {e}
                     /\ e.event_type = "payment.processed"
                     /\ e.transaction_id = StrOfUUID(loc[w].transaction_id)
                     /\ RowOfEventIn(e, payments, PaymentStatus)
                     /\ LET row == payments[UUIDOf(e.transaction_id)] IN
                        /\ UUIDOf(e.reservation_id) = row.reservation_id
                        /\ UUIDOf(e.user_id) = row.user_id
                        /\ e.amount = row.amount
                        /\ e.currency = row.currency]_vars
    /\ [](\A w \in Workers :
            req[w].rpc = "ProcessPayment"
            => (/\ loc[w].payment # NoRow
                   => loc[w].payment.transaction_id = loc[w].transaction_id
                /\ cnt[w].confirm_calls > 0
                   => loc[w].sent = StrOfUUID(loc[w].transaction_id)
                /\ (pc[w] = "done" /\ cnt[w].confirm_calls > 0)
                   => (/\ resp[w].kind = "PaymentResponse"
                       /\ resp[w].transaction_id = StrOfUUID(loc[w].transaction_id)
                       /\ loc[w].transaction_id \in DOMAIN payments
                       /\ payments[loc[w].transaction_id].transaction_id
                              = loc[w].transaction_id)))

\* the bodies of the confirm response, read as JSON, that carry an error list,
\* and those that carry no error list and no status of the reservation
ErrorListShapes == {"errors", "errors_empty"}

StatusAbsentShapes == {"data_null", "no_data", "null_result"}

\* C36: confirm_reservation fails with service-unavailable on a timeout, an
\* HTTP error status or a connection error, with the generic client error when
\* the body carries an error list, and with the generic client error when the
\* status in the body is absent or is not CONFIRMED; it returns success exactly
\* when the body carries a result with status CONFIRMED.
C36_ConfirmClassification ==
    client.op = "confirm_reservation"
    => (/\ client.shape \in TransportFailures => client.result = "unavailable"
        /\ client.shape \in ErrorListShapes => client.result = "client_error"
        /\ client.shape \in StatusAbsentShapes => client.result = "client_error"
        /\ (client.shape = "result" /\ client.status # "CONFIRMED")
           => client.result = "client_error"
        /\ (client.result = "ok")
           <=> (client.shape = "result" /\ client.status = "CONFIRMED"))

RECURSIVE SumOfAmounts(_)
\* the sum of the amounts of the events in the set S
SumOfAmounts(S) ==
    IF S = {} THEN 0
    ELSE LET e == CHOOSE x \in S : TRUE IN e.amount + SumOfAmounts(S \ {e})

\* C37: for each payment, the amounts of the payment.refunded events attempted
\* for it (one per RefundPayment call that returned success) add up to no more
\* than the amount of the payment, whatever the interleaving of the calls.
C37_RefundsWithinAmount ==
    \A t \in DOMAIN payments : SumOfAmounts(RefundedEvents(t)) <= payments[t].amount

\* C38: when the confirm mutation that a ProcessPayment call posted with
\* transaction id X has confirmed the reservation remotely, the call ends with
\* the row X committed in status COMPLETED, never with the row FAILED or absent.
C38_RemoteConfirmHasLocalRow ==
    \A w \in Workers :
        (Done(w, "ProcessPayment") /\ loc[w].remote)
        => (/\ UUIDOf(loc[w].sent) \in DOMAIN payments
            /\ payments[UUIDOf(loc[w].sent)].status = "COMPLETED")

====
